---- MODULE Spec2Model ----
(***************************************************************************)
(* Conntrack dashboard: the record parsers and the acquisition fallback    *)
(* chain (conntrack_parser.py), the time-series store and the collection   *)
(* cycle (database.py, app.py), and the anomaly scorer                     *)
(* (anomaly_detector.py, app.py get_anomalies).                            *)
(***************************************************************************)
EXTENDS Integers, Sequences, FiniteSets, TLC

VARIABLES
    profile,    \* parser: which token alphabet the input text is drawn from
    lines,      \* parser: the input text, a sequence of lines, each a sequence of tokens
    parsedBy,   \* parser: "none", or the sub-parser that was run ("cmd" / "proc")
    parsedOut,  \* parser: the list of records the sub-parser returned
    srcOutcome, \* acquisition: what each of the five sources does when it is tried
    acqMode,    \* acquisition: "none", or the variant that ran ("sync" / "async")
    acqResult,  \* acquisition: the records returned to the caller
    acqRaised,  \* acquisition: "" or the exception that left the call
    acqTried,   \* acquisition: the sources tried, in the order they were tried
    now,        \* store: the clock, datetime.now(timezone.utc)
    connTable,  \* store: the committed ConnectionSnapshot rows, in insertion order
    metricTable,\* store: the committed MetricSnapshot rows, in insertion order
    dbLock,     \* store: "none" or the thread whose session holds the write lock
    callSeq,    \* store: the number of save_snapshot calls made so far
    proc,       \* the two threads that run collect_snapshot, each its position and locals
    anomaly_detector, \* scorer: the AnomalyDetector object of app.py
    scoreCall,  \* scorer: the last scoring call, its arguments and what it returned
    scoreFailed,\* scorer: whether some scoring call so far ended in an internal error
    aggProfile, \* aggregation: which record pool the batch is drawn from
    aggBatch,   \* aggregation: the connections handed to the aggregation
    aggCall,    \* aggregation: the method that was called, its arguments and result
    dbCall,     \* time series: the last whole database call, its arguments and result
    featBatch,  \* features: the connections handed to _extract_features
    featOut     \* features: whether it ran, and the normalised columns it returned

parseVars == <<profile, lines, parsedBy, parsedOut>>
acqVars == <<srcOutcome, acqMode, acqResult, acqRaised, acqTried>>
storeVars == <<now, connTable, metricTable, dbLock, callSeq, proc>>
detVars == <<anomaly_detector, scoreCall, scoreFailed>>
aggVars == <<aggProfile, aggBatch, aggCall>>
seriesVars == <<dbCall>>
featVars == <<featBatch, featOut>>
vars == <<parseVars, acqVars, storeVars, detVars, aggVars, seriesVars, featVars>>

\* what an action of one component leaves alone: the other components
notParse == <<acqVars, storeVars, detVars, aggVars, seriesVars, featVars>>
notAcq == <<parseVars, storeVars, detVars, aggVars, seriesVars, featVars>>
notStore == <<parseVars, acqVars, detVars, aggVars, seriesVars, featVars>>
notDet == <<parseVars, acqVars, storeVars, aggVars, seriesVars, featVars>>
notAgg == <<parseVars, acqVars, storeVars, detVars, seriesVars, featVars>>
\* the time-series calls work on the store's tables
notSeries == <<parseVars, acqVars, detVars, aggVars, featVars>>
notFeat == <<parseVars, acqVars, storeVars, detVars, aggVars, seriesVars>>

(***************************************************************************)
(* Tokens.  line.split() yields strings; the parsers only look at: whether *)
(* the string contains '=', the parts before and after the first '=',      *)
(* whether it is all digits, whether it is a bracket group, and the text   *)
(* itself.  A token is a record carrying exactly that.                     *)
(***************************************************************************)
KV(k, v, text) == [t |-> "kv", k |-> k, v |-> v, text |-> text]
Word(w) == [t |-> "word", k |-> "", v |-> "", text |-> w]
Num(d) == [t |-> "num", k |-> "", v |-> "", text |-> d]
Flag(f, text) == [t |-> "flag", k |-> f, v |-> "", text |-> text]

HasEq(p) == p.t = "kv"                    \* '=' in part
IsDigit(p) == p.t = "num"                 \* part.isdigit()
StartsBracket(p) == p.t = "flag"          \* part.startswith('[')
IsBracketGroup(p) == p.t = "flag"         \* startswith('[') and endswith(']')

\* str.lower() on the texts of the vocabulary
Lower(s) ==
    CASE s = "TCP" -> "tcp"
      [] s = "UDP" -> "udp"
      [] s = "ICMP" -> "icmp"
      [] s = "ESTABLISHED" -> "established"
      [] s = "TIME_WAIT" -> "time_wait"
      [] s = "FOO" -> "foo"
      [] s = "[ASSURED]" -> "[assured]"
      [] s = "[UNREPLIED]" -> "[unreplied]"
      [] OTHER -> s

\* int(value): the decimal strings of the vocabulary; anything else is a ValueError
IsIntText(v) == v \in {"100", "50", "7"}
IntOf(v) ==
    CASE v = "100" -> 100
      [] v = "50" -> 50
      [] v = "7" -> 7
      [] OTHER -> 0

\* 'ASSURED' in flags / 'UNREPLIED' in flags (substring tests on the stripped group)
ContainsAssured(f) == f \in {"ASSURED", "ASSURED,UNREPLIED"}
ContainsUnreplied(f) == f \in {"UNREPLIED", "ASSURED,UNREPLIED"}

\* a Python dict is a function on the set of keys it holds
Put(d, k, v) == [x \in (DOMAIN d) \cup {k} |-> IF x = k THEN v ELSE d[x]]
EmptyDict == [x \in {} |-> 0]

Range(f) == {f[x] : x \in DOMAIN f}

\* parts[i] with Python's 0-based index
At(parts, i) == parts[i + 1]
\* parts[i:]
From(parts, i) == IF i >= Len(parts) THEN << >> ELSE SubSeq(parts, i + 1, Len(parts))

known_states_set ==
    {"TIME_WAIT", "ESTABLISHED", "CLOSE", "CLOSE_WAIT", "SYN_SENT", "SYN_RECV",
     "FIN_WAIT", "LAST_ACK", "LISTEN", "NEW", "RELATED", "NONE"}

IsExtended(parts) == At(parts, 0).text \in {"ipv4", "ipv6"}

\* conn['protocol']
CmdProtocol(parts) ==
    IF IsExtended(parts)
    THEN (IF Len(parts) > 2 THEN Lower(At(parts, 2).text) ELSE At(parts, 0).text)
    ELSE Lower(At(parts, 0).text)

\* the test that accepts the token at the state offset as a state
AcceptsState(p) ==
    \/ p.text \in known_states_set
    \/ (~HasEq(p) /\ ~IsDigit(p) /\ ~StartsBracket(p))

\* a state parse that steps over the token at the offset in every case
CmdStateAdvancing(parts) ==
    LET off == IF IsExtended(parts) THEN 5 ELSE 3
    IN  IF Len(parts) > off
        THEN (IF AcceptsState(At(parts, off))
              THEN <<At(parts, off).text, off + 1>>
              ELSE <<"NONE", off + 1>>)
        ELSE <<"NONE", off>>
\* <<conn['state'], state_idx>>
CmdState(parts) ==
    LET off == IF IsExtended(parts) THEN 5 ELSE 3
    IN  IF Len(parts) > off
        THEN (IF AcceptsState(At(parts, off))
              THEN <<At(parts, off).text, off + 1>>
              ELSE <<"NONE", off>>)
        ELSE <<"NONE", off>>

\* one iteration of the key=value loop of the command-output parser;
\* st = [conn, bytes_sent, bytes_recv, first_bytes_seen]
CmdStep(st, part) ==
    IF HasEq(part)
    THEN IF part.k \in {"src", "dst", "sport", "dport"} /\ part.k \notin DOMAIN st.conn
         THEN [st EXCEPT !.conn = Put(st.conn, part.k, part.v)]
         ELSE IF part.k \in {"mark", "use"}
         THEN [st EXCEPT !.conn = Put(st.conn, part.k, part.v)]
         ELSE IF part.k = "bytes"
         THEN (IF IsIntText(part.v)
               THEN (IF ~st.first_bytes_seen
                     THEN [st EXCEPT !.bytes_sent = IntOf(part.v), !.first_bytes_seen = TRUE]
                     ELSE [st EXCEPT !.bytes_recv = IntOf(part.v)])
               ELSE st)
         ELSE st
    ELSE IF IsBracketGroup(part)
    THEN LET c1 == Put(st.conn, "flags", part.k)
             c2 == IF ContainsAssured(part.k) THEN Put(c1, "assured", TRUE) ELSE c1
             c3 == IF ContainsUnreplied(part.k) THEN Put(c2, "unreplied", TRUE) ELSE c2
         IN  [st EXCEPT !.conn = c3]
    ELSE st

RECURSIVE CmdLoop(_, _)
CmdLoop(st, rest) ==
    IF rest = << >> THEN st ELSE CmdLoop(CmdStep(st, Head(rest)), Tail(rest))

\* a record check that asks for src alone
HasSrcOnly(conn) == "src" \in DOMAIN conn

\* the record check that ends the loop body of either parser
HasSrcDst(conn) == "src" \in DOMAIN conn /\ "dst" \in DOMAIN conn

\* the body of the per-line loop of _parse_conntrack_output: the records
\* (none or one) the line appends to connections
ParseCmdLine(parts) ==
    IF Len(parts) < 4 THEN << >>
    ELSE
      LET sx == CmdState(parts)
          c0 == Put(Put(EmptyDict, "protocol", CmdProtocol(parts)), "state", sx[1])
          st == CmdLoop([conn |-> c0, bytes_sent |-> 0, bytes_recv |-> 0,
                         first_bytes_seen |-> FALSE], From(parts, sx[2]))
          c1 == Put(Put(Put(st.conn, "bytes_sent", st.bytes_sent),
                        "bytes_recv", st.bytes_recv),
                    "total_bytes", st.bytes_sent + st.bytes_recv)
      IN  IF HasSrcDst(c1) THEN <<c1>> ELSE << >>

RECURSIVE parse_conntrack_output(_)
parse_conntrack_output(output) ==
    IF output = << >> THEN << >>
    ELSE ParseCmdLine(Head(output)) \o parse_conntrack_output(Tail(output))

\* one iteration of the key=value loop of the pseudo-file parser
ProcStep(conn, part) == IF HasEq(part) THEN Put(conn, part.k, part.v) ELSE conn

RECURSIVE ProcLoop(_, _)
ProcLoop(conn, rest) ==
    IF rest = << >> THEN conn ELSE ProcLoop(ProcStep(conn, Head(rest)), Tail(rest))

\* the body of the per-line loop of _parse_proc_conntrack
ParseProcLine(parts) ==
    IF Len(parts) < 4 THEN << >>
    ELSE
      LET c0 == Put(Put(EmptyDict, "protocol", At(parts, 2).text),
                    "state", At(parts, 3).text)
          c1 == ProcLoop(c0, From(parts, 4))
      IN  IF HasSrcDst(c1) THEN <<c1>> ELSE << >>

RECURSIVE parse_proc_conntrack(_)
parse_proc_conntrack(content) ==
    IF content = << >> THEN << >>
    ELSE ParseProcLine(Head(content)) \o parse_proc_conntrack(Tail(content))

(***************************************************************************)
(* Input texts for the parsers.  A line starts with one of the layouts'    *)
(* leading tokens (or a cut-off one) and continues with tokens of the      *)
(* profile's alphabet.                                                     *)
(***************************************************************************)
MaxCost == 4      \* lines plus free tokens of one input text

SrcA == KV("src", "a", "src=a")
SrcB == KV("src", "b", "src=b")
DstA == KV("dst", "a", "dst=a")
DstB == KV("dst", "b", "dst=b")
Sport1 == KV("sport", "1", "sport=1")
Sport2 == KV("sport", "2", "sport=2")
Dport1 == KV("dport", "1", "dport=1")
Dport2 == KV("dport", "2", "dport=2")

Bytes100 == KV("bytes", "100", "bytes=100")
Bytes50 == KV("bytes", "50", "bytes=50")
Bytes7 == KV("bytes", "7", "bytes=7")
BytesX == KV("bytes", "x", "bytes=x")

Profiles == {"addr", "sport", "dport", "state", "bytes", "offset"}

Alphabet(pf) ==
    CASE pf = "addr" -> {SrcA, SrcB, DstA, DstB}
      [] pf = "sport" -> {SrcA, DstA, Sport1, Sport2}
      [] pf = "dport" -> {SrcA, DstA, Dport1, Dport2}
      [] pf = "state" -> {SrcA, DstA, Word("ESTABLISHED"), Word("FOO"), Num("7"),
                          Flag("ASSURED", "[ASSURED]")}
      [] pf = "bytes" -> {Bytes100, Bytes50, Bytes7, BytesX}
      [] pf = "offset" -> {SrcA, DstA, Bytes7, Dport1}

DefaultLead == <<Word("tcp"), Num("6"), Num("30")>>
ExtendedLead == <<Word("ipv4"), Num("2"), Word("tcp"), Num("6"), Num("30")>>
Leads == {<<Word("tcp")>>, DefaultLead, ExtendedLead}
\* the lines of the byte-counter texts already carry their addresses
AddressedLeads ==
    {DefaultLead \o <<SrcA, DstA>>,
     ExtendedLead \o <<Word("ESTABLISHED"), SrcA, DstA>>}
LeadsOf(pf) == IF pf = "bytes" THEN AddressedLeads ELSE Leads


\* a line of the input: its leading tokens and the tokens that follow
Parts(ln) == ln.lead \o ln.free
Text(ls) == [i \in 1..Len(ls) |-> Parts(ls[i])]

RECURSIVE Cost(_)
Cost(ls) == IF ls = << >> THEN 0 ELSE 1 + Len(Head(ls).free) + Cost(Tail(ls))

ParseInit ==
    /\ profile \in Profiles
    /\ lines = << >>
    /\ parsedBy = "none"
    /\ parsedOut = << >>

\* the text grows by a new line
NewLine ==
    /\ parsedBy = "none"
    /\ Cost(lines) < MaxCost
    /\ \E ld \in LeadsOf(profile) :
          lines' = Append(lines, [lead |-> ld, free |-> << >>])
    /\ UNCHANGED <<profile, parsedBy, parsedOut, notParse>>

\* the last line of the text grows by a token
AddToken ==
    /\ parsedBy = "none"
    /\ lines # << >>
    /\ Cost(lines) < MaxCost
    /\ \E tok \in Alphabet(profile) :
         lines' = [lines EXCEPT ![Len(lines)].free = Append(@, tok)]
    /\ UNCHANGED <<profile, parsedBy, parsedOut, notParse>>

\* _parse_conntrack_output(text)
ParseCommandOutput ==
    /\ parsedBy = "none"
    /\ parsedBy' = "cmd"
    /\ parsedOut' = parse_conntrack_output(Text(lines))
    /\ UNCHANGED <<profile, lines, notParse>>

\* _parse_proc_conntrack(text)
ParseProcFile ==
    /\ parsedBy = "none"
    /\ parsedBy' = "proc"
    /\ parsedOut' = parse_proc_conntrack(Text(lines))
    /\ UNCHANGED <<profile, lines, notParse>>

ParseNext == NewLine \/ AddToken \/ ParseCommandOutput \/ ParseProcFile



(***************************************************************************)
(* Acquisition: get_conntrack_data and get_conntrack_data_async.           *)
(* A source is an invocation of the conntrack tool (sources 1 to 3) or a   *)
(* pseudo-file (sources 4 and 5).  What a source does when tried:          *)
(*   res = "notfound"  the tool or file does not exist (FileNotFoundError) *)
(*   res = "denied"    it may not be run or opened (PermissionError)       *)
(*   res = "timeout"   the tool runs past the 5 s timeout                  *)
(*   res = "nonzero"   the tool exits with a non-zero return code          *)
(*   res = "ok"        the tool exits with 0 / the file is read: out is    *)
(*                     the text it gave                                    *)
(***************************************************************************)
Sources == 1..5
IsTool(s) == s \in 1..3

MarkOf(s) ==
    CASE s = 1 -> KV("mark", "1", "mark=1")
      [] s = 2 -> KV("mark", "2", "mark=2")
      [] s = 3 -> KV("mark", "3", "mark=3")
      [] s = 4 -> KV("mark", "4", "mark=4")
      [] s = 5 -> KV("mark", "5", "mark=5")

EmptyText == << >>
\* a non-empty text none of whose lines is a connection
GarbageText == << <<Word("conntrack"), Word("v1.4.6"), Word("(conntrack-tools)")>> >>
\* a text with one connection, marked with the source it comes from
ValidText(s) == << ExtendedLead \o <<Word("ESTABLISHED"), SrcA, DstA, MarkOf(s)>> >>

Texts(s) == {EmptyText, GarbageText, ValidText(s)}

ToolOutcomes(s) ==
    {[res |-> r, out |-> EmptyText] : r \in {"notfound", "denied", "timeout", "nonzero"}}
        \cup {[res |-> "ok", out |-> t] : t \in Texts(s)}
FileOutcomes(s) ==
    {[res |-> r, out |-> EmptyText] : r \in {"notfound", "denied"}}
        \cup {[res |-> "ok", out |-> t] : t \in Texts(s)}
Outcomes(s) == IF IsTool(s) THEN ToolOutcomes(s) ELSE FileOutcomes(s)

\* text.strip() is non-empty: some line holds a token
NonBlank(text) == \E i \in 1..Len(text) : Len(text[i]) > 0

\* the exception subprocess.run / open raises for an outcome ("" for none)
SyncException(o) ==
    CASE o.res = "notfound" -> "FileNotFoundError"
      [] o.res = "denied" -> "PermissionError"
      [] o.res = "timeout" -> "subprocess.TimeoutExpired"
      [] OTHER -> ""
\* the exception create_subprocess_exec / wait_for raises for an outcome
AsyncException(o) ==
    CASE o.res = "notfound" -> "FileNotFoundError"
      [] o.res = "denied" -> "PermissionError"
      [] o.res = "timeout" -> "asyncio.TimeoutError"
      [] OTHER -> ""

\* except clauses that leave PermissionError out
ToolExceptNoPermission == {"subprocess.TimeoutExpired", "FileNotFoundError"}
\* the except clauses of the three tool steps of get_conntrack_data
ToolExcept == {"subprocess.TimeoutExpired", "FileNotFoundError", "PermissionError"}
\* the except clauses of the two pseudo-file steps
FileExcept == {"FileNotFoundError", "PermissionError"}
\* except clauses that leave the timeout out
AsyncExceptNoTimeout == {"FileNotFoundError", "PermissionError"}
\* the except clauses of the two steps of get_conntrack_data_async
AsyncExcept == {"asyncio.TimeoutError", "FileNotFoundError", "PermissionError"}

\* What one step does: "return" with records, "next" (fall through to the
\* code after the try block) or "raise".
Returns(recs) == [kind |-> "return", value |-> recs, exc |-> ""]
FallsThrough == [kind |-> "next", value |-> << >>, exc |-> ""]
Raises(e) == [kind |-> "raise", value |-> << >>, exc |-> e]

\* step 1 of get_conntrack_data: conntrack -L -o extended
SyncStep1(o) ==
    IF SyncException(o) # ""
    THEN (IF SyncException(o) \in ToolExcept THEN FallsThrough ELSE Raises(SyncException(o)))
    ELSE IF o.res = "ok" /\ NonBlank(o.out)
         THEN LET connections == parse_conntrack_output(o.out)
              IN  IF connections # << >> THEN Returns(connections) ELSE FallsThrough
         ELSE FallsThrough

\* steps 2 and 3 of get_conntrack_data: conntrack -L -o extended -n, conntrack -L
SyncStep23(o) ==
    IF SyncException(o) # ""
    THEN (IF SyncException(o) \in ToolExcept THEN FallsThrough ELSE Raises(SyncException(o)))
    ELSE IF o.res = "ok" /\ NonBlank(o.out)
         THEN Returns(parse_conntrack_output(o.out))
         ELSE FallsThrough

\* steps 4 and 5 of get_conntrack_data: /proc/net/nf_conntrack, /proc/net/ip_conntrack
SyncStep45(o) ==
    IF SyncException(o) # ""
    THEN (IF SyncException(o) \in FileExcept THEN FallsThrough ELSE Raises(SyncException(o)))
    ELSE IF o.res = "ok" /\ NonBlank(o.out)
         THEN Returns(parse_proc_conntrack(o.out))
         ELSE FallsThrough

SyncStep(s, o) ==
    IF s = 1 THEN SyncStep1(o) ELSE IF s \in {2, 3} THEN SyncStep23(o) ELSE SyncStep45(o)

\* get_conntrack_data from step s on; tried is the list of sources tried so far.
\* The result is [kind, value, exc, tried]; after step 5 the code returns [].
RECURSIVE SyncFrom(_, _, _)
SyncFrom(s, env, tried) ==
    IF s > 5 THEN [kind |-> "return", value |-> << >>, exc |-> "", tried |-> tried]
    ELSE LET r == SyncStep(s, env[s])
         IN  IF r.kind = "next" THEN SyncFrom(s + 1, env, Append(tried, s))
             ELSE [kind |-> r.kind, value |-> r.value, exc |-> r.exc,
                   tried |-> Append(tried, s)]

get_conntrack_data(env, tried) == SyncFrom(1, env, tried)

\* step 1 of get_conntrack_data_async
AsyncStep1(o) ==
    IF AsyncException(o) # ""
    THEN (IF AsyncException(o) \in AsyncExcept THEN FallsThrough ELSE Raises(AsyncException(o)))
    ELSE IF o.res = "ok" /\ NonBlank(o.out)
         THEN LET connections == parse_conntrack_output(o.out)
              IN  IF connections # << >> THEN Returns(connections) ELSE FallsThrough
         ELSE FallsThrough

\* step 2 of get_conntrack_data_async
AsyncStep2(o) ==
    IF AsyncException(o) # ""
    THEN (IF AsyncException(o) \in AsyncExcept THEN FallsThrough ELSE Raises(AsyncException(o)))
    ELSE IF o.res = "ok" /\ NonBlank(o.out)
         THEN Returns(parse_conntrack_output(o.out))
         ELSE FallsThrough

\* get_conntrack_data_async: its two steps, then get_conntrack_data
get_conntrack_data_async(env) ==
    LET r1 == AsyncStep1(env[1])
        r2 == AsyncStep2(env[2])
    IN  IF r1.kind # "next"
        THEN [kind |-> r1.kind, value |-> r1.value, exc |-> r1.exc, tried |-> <<1>>]
        ELSE IF r2.kind # "next"
        THEN [kind |-> r2.kind, value |-> r2.value, exc |-> r2.exc, tried |-> <<1, 2>>]
        ELSE get_conntrack_data(env, <<1, 2>>)

AcqInit ==
    /\ \E o1 \in Outcomes(1), o2 \in Outcomes(2), o3 \in Outcomes(3),
          o4 \in Outcomes(4), o5 \in Outcomes(5) :
            srcOutcome = <<o1, o2, o3, o4, o5>>
    /\ acqMode = "none"
    /\ acqResult = << >>
    /\ acqRaised = ""
    /\ acqTried = << >>

\* a call of get_conntrack_data()
AcquireSync ==
    /\ acqMode = "none"
    /\ LET r == get_conntrack_data(srcOutcome, << >>)
       IN  /\ acqResult' = r.value
           /\ acqRaised' = r.exc
           /\ acqTried' = r.tried
    /\ acqMode' = "sync"
    /\ UNCHANGED <<srcOutcome, notAcq>>

\* a call of get_conntrack_data_async()
AcquireAsync ==
    /\ acqMode = "none"
    /\ LET r == get_conntrack_data_async(srcOutcome)
       IN  /\ acqResult' = r.value
           /\ acqRaised' = r.exc
           /\ acqTried' = r.tried
    /\ acqMode' = "async"
    /\ UNCHANGED <<srcOutcome, notAcq>>

AcqNext == AcquireSync \/ AcquireAsync

(***************************************************************************)
(* The time-series store (save_snapshot) and the collection cycle          *)
(* (collect_snapshot).  collect_snapshot runs in the main thread once, at  *)
(* import (app.py:147), and in the scheduler's thread every 30 s with      *)
(* max_instances=1 (app.py:135-144).  A batch of connections is held as    *)
(* its length: save_snapshot copies each record into one row and looks at  *)
(* nothing but len(connections).  A run of rows one flush inserts is one   *)
(* element of connTable: [ts, rows, by], by being the save_snapshot call.  *)
(***************************************************************************)
MaxTime == 1          \* the clock stops here
MaxSchedRuns == 1     \* scheduler-triggered runs of collect_snapshot

LargeDataset == 50000     \* collect_snapshot: above this, metrics are skipped
HugeDataset == 100000     \* save_snapshot: above this, the small batch size
BatchSizeHuge == 500
BatchSizeNormal == 1000

Procs == {"initial", "sched"}

\* len(parser.get_conntrack_data()) of a cycle
CycleCounts == {0, 1001, 50001}
\* a table above HugeDataset is met by the start-up call, which app.py:147
\* makes at import, before the scheduler's first run
HugeCounts == {100001}
AtImport(p) == p = "initial" /\ now = 0 /\ proc["sched"].pc = "idle"
CountsOf(p) == IF AtImport(p) THEN CycleCounts \cup HugeCounts ELSE CycleCounts
\* the number of (dimension, key) pairs of a cycle's get_all_groupings() result
PayloadSizes == {1, 2}

Dimensions == <<"by_protocol", "by_state", "by_src_ip", "by_dst_ip",
                "by_sport", "by_dport", "by_port">>

metric_type_map(k) ==
    CASE k = "by_protocol" -> "protocol"
      [] k = "by_state" -> "state"
      [] k = "by_src_ip" -> "src_ip"
      [] k = "by_dst_ip" -> "dst_ip"
      [] k = "by_sport" -> "sport"
      [] k = "by_dport" -> "dport"
      [] k = "by_port" -> "port"
      [] OTHER -> k

\* the i-th (dimension, key, value) of a get_all_groupings() result
GroupingEntry(i) ==
    [dim |-> Dimensions[((i - 1) % 7) + 1], key |-> (i - 1) \div 7,
     count |-> i, bytes_sent |-> 10 * i, bytes_recv |-> i]
\* a get_all_groupings() result with m (dimension, key) pairs, in dict order
Groupings(m) == [i \in 1..m |-> GroupingEntry(i)]

\* the MetricSnapshot row save_snapshot builds from one entry
MetricRow(e, ts, call) ==
    [ts |-> ts, metric_type |-> metric_type_map(e.dim), metric_key |-> e.key,
     count |-> e.count, bytes_sent |-> e.bytes_sent, bytes_recv |-> e.bytes_recv,
     total_bytes |-> e.bytes_sent + e.bytes_recv, by |-> call]

batch_size(n) == IF n > HugeDataset THEN BatchSizeHuge ELSE BatchSizeNormal

Min(a, b) == IF a < b THEN a ELSE b

\* a slice that is a full batch even at the end of the list
ChunkRowsFull(n, i) == batch_size(n)
\* len(connections[i:i + batch_size])
ChunkRows(n, i) == Min(batch_size(n), n - i)

\* session.rollback() that keeps what the session had flushed
RollbackKeepsFlushed(table, pending) == table \o pending
\* session.rollback(): what the session flushed is gone, the table is as committed
Rollback(table, pending) == table
\* session.commit(): what the session flushed and added becomes visible
Commit(table, pending) == table \o pending

\* the exceptions a failed write raises; all are subclasses of Exception
WriteErrors == {"OperationalError"}
\* except Exception (app.py:113 and app.py:128) catches every one of them
CycleCatches(e) == TRUE

IdleProc ==
    [pc |-> "idle", call |-> 0, n |-> 0, i |-> 0, ts |-> 0, metrics |-> << >>,
     pendConn |-> << >>, pendMetric |-> << >>, err |-> "", saveResult |-> "none",
     cycleRaised |-> FALSE, runs |-> 0, partial |-> FALSE]

StoreInit ==
    /\ now = 0
    /\ connTable = << >>
    /\ metricTable = << >>
    /\ dbLock = "none"
    /\ callSeq = 0
    /\ proc = [p \in Procs |-> IdleProc]

Tick ==
    /\ now < MaxTime
    /\ now' = now + 1
    /\ UNCHANGED <<connTable, metricTable, dbLock, callSeq, proc, notStore>>

MayStart(p) ==
    IF p = "initial" THEN proc[p].pc = "idle"
    ELSE proc[p].pc \in {"idle", "done"} /\ proc[p].runs < MaxSchedRuns

\* a cycle that never hands the groupings to save_snapshot
CycleMetricsNone(n, m) == << >>
\* the metrics argument of the cycle's save_snapshot call: None above
\* LargeDataset records, get_all_groupings(connections) otherwise
CycleMetrics(n, m) == IF n > LargeDataset THEN << >> ELSE Groupings(m)

\* collect_snapshot up to the call of save_snapshot, and save_snapshot up to
\* its loop: the acquisition, the groupings, the session and the timestamp
CycleStart(p) ==
    /\ MayStart(p)
    /\ \E n \in CountsOf(p), m \in PayloadSizes :
         IF n = 0
         THEN /\ m = 1
              /\ proc' = [proc EXCEPT ![p] =
                    [IdleProc EXCEPT !.pc = "done", !.runs = proc[p].runs + 1]]
              /\ UNCHANGED callSeq
         ELSE /\ (n > LargeDataset => m = 1)
              /\ callSeq' = callSeq + 1
              /\ proc' = [proc EXCEPT ![p] =
                    [IdleProc EXCEPT !.pc = "chunks", !.call = callSeq + 1, !.n = n,
                                     !.ts = now, !.runs = proc[p].runs + 1,
                                     !.metrics = CycleMetrics(n, m)]]
    /\ UNCHANGED <<now, connTable, metricTable, dbLock, notStore>>

\* one pass of the batch loop: bulk_save_objects and flush succeed
FlushChunk(p) ==
    /\ proc[p].pc = "chunks"
    /\ dbLock \in {"none", p}
    /\ LET q == proc[p]
           rows == ChunkRows(q.n, q.i)
           j == q.i + batch_size(q.n)
       IN  proc' = [proc EXCEPT ![p] =
               [q EXCEPT !.pendConn = Append(@, [ts |-> q.ts, rows |-> rows, by |-> q.call]),
                         !.i = j,
                         !.pc = IF j < q.n THEN "chunks" ELSE "metrics"]]
    /\ dbLock' = p
    /\ UNCHANGED <<now, connTable, metricTable, callSeq, notStore>>

\* one pass of the batch loop: the write fails (the database is locked by the
\* other session, the disk is full, ...)
FlushFails(p) ==
    /\ proc[p].pc = "chunks"
    /\ \E e \in WriteErrors :
         proc' = [proc EXCEPT ![p] =
             [@ EXCEPT !.pc = "rollback", !.err = e,
                       !.partial = (proc[p].pendConn # << >>)]]
    /\ UNCHANGED <<now, connTable, metricTable, dbLock, callSeq, notStore>>

\* "if metrics:" and the loops that add one MetricSnapshot per (dimension, key)
AddMetrics(p) ==
    /\ proc[p].pc = "metrics"
    /\ LET q == proc[p]
       IN  proc' = [proc EXCEPT ![p] =
               [q EXCEPT !.pendMetric =
                             [i \in 1..Len(q.metrics) |-> MetricRow(q.metrics[i], q.ts, q.call)],
                         !.pc = "commit"]]
    /\ UNCHANGED <<now, connTable, metricTable, dbLock, callSeq, notStore>>

\* session.commit() succeeds; finally: session.close(); save_snapshot returns,
\* and collect_snapshot with it
CommitOk(p) ==
    /\ proc[p].pc = "commit"
    /\ dbLock \in {"none", p}
    /\ connTable' = Commit(connTable, proc[p].pendConn)
    /\ metricTable' = Commit(metricTable, proc[p].pendMetric)
    /\ dbLock' = "none"
    /\ proc' = [proc EXCEPT ![p] =
           [IdleProc EXCEPT !.pc = "done", !.saveResult = "ok",
                            !.call = proc[p].call, !.runs = proc[p].runs]]
    /\ UNCHANGED <<now, callSeq, notStore>>

\* session.commit() fails: the flush of the metric rows or the commit itself
CommitFails(p) ==
    /\ proc[p].pc = "commit"
    /\ \E e \in WriteErrors :
         proc' = [proc EXCEPT ![p] =
             [@ EXCEPT !.pc = "rollback", !.err = e,
                       !.partial = (proc[p].pendConn # << >>)]]
    /\ UNCHANGED <<now, connTable, metricTable, dbLock, callSeq, notStore>>

\* except Exception as e: session.rollback(); raise e; finally: session.close()
SaveRollback(p) ==
    /\ proc[p].pc = "rollback"
    /\ connTable' = Rollback(connTable, proc[p].pendConn)
    /\ metricTable' = Rollback(metricTable, proc[p].pendMetric)
    /\ dbLock' = IF dbLock = p THEN "none" ELSE dbLock
    /\ proc' = [proc EXCEPT ![p] =
           [IdleProc EXCEPT !.pc = "raised", !.saveResult = "raised",
                            !.err = proc[p].err, !.partial = proc[p].partial,
                            !.call = proc[p].call, !.runs = proc[p].runs]]
    /\ UNCHANGED <<now, callSeq, notStore>>

\* collect_snapshot's handlers: except Exception as db_error (large path) and
\* except Exception as e (around the whole body) print the error and return
CycleHandler(p) ==
    /\ proc[p].pc = "raised"
    /\ proc' = [proc EXCEPT ![p] =
           [@ EXCEPT !.pc = "done", !.err = "",
                     !.cycleRaised = ~CycleCatches(proc[p].err)]]
    /\ UNCHANGED <<now, connTable, metricTable, dbLock, callSeq, notStore>>

StoreNext ==
    \/ Tick
    \/ \E p \in Procs : CycleStart(p)
    \/ \E p \in Procs : FlushChunk(p)
    \/ \E p \in Procs : FlushFails(p)
    \/ \E p \in Procs : AddMetrics(p)
    \/ \E p \in Procs : CommitOk(p)
    \/ \E p \in Procs : CommitFails(p)
    \/ \E p \in Procs : SaveRollback(p)
    \/ \E p \in Procs : CycleHandler(p)

(***************************************************************************)
(* Anomaly scorer.  anomaly_detector.py AnomalyDetector and the handler    *)
(* get_anomalies of app.py, which owns the detector's parameters.          *)
(*                                                                         *)
(* Floats are fixed-point: contamination is in percent (0.1 is 10), a      *)
(* normalised feature is in hundredths.  A connection is the two fields    *)
(* the feature vector below reads; the feature vector keeps the protocol   *)
(* code and the normalised total bytes.                                    *)
(*                                                                         *)
(* IsolationForest and StandardScaler are library objects.  What is kept   *)
(* of them: fit() validates contamination against (0, 0.5] before          *)
(* anything else and raises on a value outside it; fit() sets offset_ to   *)
(* the contamination-percentile of the training scores; predict() is -1    *)
(* where score_samples() - offset_ < 0; transform()/predict() on an        *)
(* unfitted object raise NotFittedError.  The score itself is a stand-in   *)
(* for the forest's path length: minus the distance from the centre the    *)
(* scaler learnt, so the further a record is from the batch the scaler     *)
(* was fitted on, the lower its score.                                     *)
(***************************************************************************)
ExtraRecords == 2     \* the long batch has MinRecords + ExtraRecords records
MaxCalls == 2         \* scoring calls made in one behaviour

MinRecords == 10              \* detect_anomalies / get_anomalies: fewer is refused
DefaultContamination == 10    \* AnomalyDetector(contamination=0.1)
MaxContamination == 50        \* get_anomalies: 0.0 <= contamination <= 0.5
DefaultEstimators == 100      \* self._n_estimators = 100

\* Optional query parameters
None == [some |-> FALSE, v |-> 0]
Some(x) == [some |-> TRUE, v |-> x]

\* a record whose 'protocol' value is None instead of a string
NoneProtocol == "<None>"

Abs(x) == IF x < 0 THEN -x ELSE x
MaxOf(S) == CHOOSE m \in S : \A x \in S : x <= m

\* len(connections) < 10 that lets nine records through
TooFewBelowNine(n) == n < MinRecords - 1
\* len(connections) < 10
TooFew(n) == n < MinRecords

protocol_map(p) ==
    CASE p = "tcp" -> 0
      [] p = "udp" -> 1
      [] p = "icmp" -> 2
      [] p = "icmpv6" -> 3
      [] p = "gre" -> 4
      [] p = "esp" -> 5
      [] p = "ah" -> 6
      [] OTHER -> 7

\* conn.get('protocol', 'unknown').lower() on a None value: AttributeError
ExtractRaises(connections) ==
    \E i \in DOMAIN connections : connections[i].protocol = NoneProtocol

\* _extract_features: one vector per record, in the records' order
extract_features(connections) ==
    LET max_total_bytes ==
            MaxOf({connections[i].total_bytes : i \in DOMAIN connections})
    IN  [i \in DOMAIN connections |->
            << protocol_map(Lower(connections[i].protocol)),
               IF max_total_bytes > 0
               THEN (connections[i].total_bytes * 100) \div max_total_bytes
               ELSE 0 >>]

RECURSIVE ColumnSum(_, _, _)
ColumnSum(features, col, upto) ==
    IF upto = 0 THEN 0
    ELSE features[upto][col] + ColumnSum(features, col, upto - 1)

\* StandardScaler(): not fitted
NewScaler == [fitted |-> FALSE, n |-> 0, sums |-> <<0, 0>>]
\* scaler.fit: learns the centre of each column (kept as column sum and count)
ScalerFit(features) ==
    [fitted |-> TRUE, n |-> Len(features),
     sums |-> <<ColumnSum(features, 1, Len(features)),
                ColumnSum(features, 2, Len(features))>>]
\* scaler.transform: each value minus the learnt centre (times the count)
ScalerTransform(sc, features) ==
    [i \in DOMAIN features |->
        << features[i][1] * sc.n - sc.sums[1],
           features[i][2] * sc.n - sc.sums[2] >>]

\* self.model is None
NoModel == [made |-> FALSE, contamination |-> 0, n_estimators |-> 0,
            fitted |-> FALSE, offset |-> 0]
\* IsolationForest(contamination=..., random_state=..., n_estimators=...)
IsolationForest(c, n_est) ==
    [made |-> TRUE, contamination |-> c, n_estimators |-> n_est,
     fitted |-> FALSE, offset |-> 0]

\* model.fit's parameter validation: contamination must be in (0, 0.5]
FitRaises(m) == ~(0 < m.contamination /\ m.contamination <= 50)

\* model.score_samples
score_samples(X) == [i \in DOMAIN X |-> 0 - (Abs(X[i][1]) + Abs(X[i][2]))]

\* np.percentile(scores, 100 * contamination): the value at rank
\* contamination * (n - 1); between two ranks the interpolated value flags
\* the same training records as the upper of the two
Percentile(scores, c) ==
    LET k == (c * (Len(scores) - 1) + 99) \div 100
    IN  CHOOSE v \in Range(scores) :
            /\ Cardinality({i \in DOMAIN scores : scores[i] < v}) <= k
            /\ k < Cardinality({i \in DOMAIN scores : scores[i] <= v})

\* model.fit(X) once the parameters are accepted
Fit(m, X) ==
    [m EXCEPT !.fitted = TRUE,
              !.offset = Percentile(score_samples(X), m.contamination)]

\* model.predict
predict(m, X) ==
    [i \in DOMAIN X |-> IF score_samples(X)[i] - m.offset < 0 THEN -1 ELSE 1]

\* anomaly_indices.sort(key=lambda i: anomaly_scores[i]): stable, so equal
\* scores stay in index order
RECURSIVE SortByScore(_, _)
SortByScore(S, scores) ==
    IF S = {} THEN << >>
    ELSE LET m == CHOOSE i \in S :
                      \A j \in S : \/ scores[i] < scores[j]
                                   \/ scores[i] = scores[j] /\ i <= j
         IN  <<m>> \o SortByScore(S \ {m}, scores)

\* the exceptions the scorer's calls can end in; all are Exception subclasses
ScoreErrors == {"AttributeError", "ValueError", "MemoryError", "NotFittedError"}
\* detect_anomalies: except Exception as e
DetectCatches(e) == e \in ScoreErrors

\* what one detect_anomalies call leaves behind and hands back
Outcome(self, indices, scores, error, refit, predicted) ==
    [self |-> self, indices |-> indices, scores |-> scores, error |-> error,
     raised |-> error # "none" /\ ~DetectCatches(error),
     refit |-> refit, predicted |-> predicted]
\* the except branch: return [], []
Caught(self, error, refit) == Outcome(self, << >>, << >>, error, refit, FALSE)

\* lines 171-184: predict, score, collect the -1 indices, sort them by score
PredictAndRank(self, X, fault, refit) ==
    IF ~self.model.fitted THEN Caught(self, "NotFittedError", refit)
    ELSE IF fault = "predict" THEN Caught(self, "MemoryError", refit)
    ELSE LET predictions == predict(self.model, X)
             anomaly_scores == score_samples(X)
             flagged == {i \in DOMAIN predictions : predictions[i] = -1}
         IN  Outcome(self, SortByScore(flagged, anomaly_scores),
                     anomaly_scores, "none", refit, TRUE)

\* lines 157-166: new model, fit the scaler, fit the model, set is_fitted
FitThenPredict(self, features, fault) ==
    LET made == [self EXCEPT
                    !.model = IsolationForest(self.contamination, self.n_estimators)]
        scaled == [made EXCEPT !.scaler = ScalerFit(features)]
        X == ScalerTransform(scaled.scaler, features)
        fitted == [scaled EXCEPT !.model = Fit(scaled.model, X),
                                 !.is_fitted = TRUE]
    IN  IF FitRaises(made.model) THEN Caught(scaled, "ValueError", FALSE)
        ELSE IF fault = "fit" THEN Caught(scaled, "MemoryError", FALSE)
        ELSE PredictAndRank(fitted, X, fault, TRUE)

\* AnomalyDetector.detect_anomalies(connections); fault is the library call
\* that runs out of memory in this call, if any
detect_anomalies(self, connections, fault) ==
    IF Len(connections) = 0 \/ TooFew(Len(connections))
    THEN Outcome(self, << >>, << >>, "none", FALSE, FALSE)
    ELSE IF ExtractRaises(connections)
    THEN Caught(self, "AttributeError", FALSE)
    ELSE LET features == extract_features(connections)
         IN  IF ~self.is_fitted \/ ~self.model.made
             THEN FitThenPredict(self, features, fault)
             ELSE IF ~self.scaler.fitted
             THEN Caught(self, "NotFittedError", FALSE)
             ELSE PredictAndRank(self, ScalerTransform(self.scaler, features),
                                 fault, FALSE)

\* The batches a call can be handed: none, one short of the minimum, the
\* minimum with a malformed record, and the minimum and a longer one with a
\* mild and a far outlier (the far one at the higher index)
Normal == [protocol |-> "tcp", total_bytes |-> 0]
Mild == [protocol |-> "ICMP", total_bytes |-> 0]
Far == [protocol |-> "gre", total_bytes |-> 9]
Malformed == [protocol |-> NoneProtocol, total_bytes |-> 0]
Batch(n, shape) ==
    [i \in 1..n |->
        CASE shape = "two" /\ i = 2 -> Mild
          [] shape = "two" /\ i = 5 -> Far
          [] shape = "bad" /\ i = 4 -> Malformed
          [] OTHER -> Normal]
Batches ==
    {Batch(0, "two"), Batch(MinRecords - 1, "two"), Batch(MinRecords, "bad"),
     Batch(MinRecords, "two"), Batch(MinRecords + ExtraRecords, "two")}

\* ?contamination= and ?n_estimators= of a request
Overrides ==
    {[c |-> None, n |-> None],
     [c |-> Some(0), n |-> None], [c |-> Some(20), n |-> None],
     [c |-> Some(60), n |-> None],
     [c |-> None, n |-> Some(0)], [c |-> None, n |-> Some(50)],
     [c |-> Some(20), n |-> Some(50)]}
Faults == {"none", "fit", "predict"}

NoCall ==
    [seq |-> 0, via |-> "none", connections |-> << >>, contamination |-> None,
     n_estimators |-> None, fault |-> "none", changed |-> FALSE,
     indices |-> << >>, scores |-> << >>, error |-> "none", raised |-> FALSE,
     refit |-> FALSE, predicted |-> FALSE, afterFailure |-> FALSE,
     response |-> "none"]

\* anomaly_detector = AnomalyDetector(contamination=0.1)
DetInit ==
    /\ anomaly_detector = [contamination |-> DefaultContamination,
                           n_estimators |-> DefaultEstimators,
                           model |-> NoModel, scaler |-> NewScaler,
                           is_fitted |-> FALSE]
    /\ scoreCall = NoCall
    /\ scoreFailed = FALSE

\* a call of anomaly_detector.detect_anomalies(connections) on its own
DetectAnomalies ==
    /\ scoreCall.seq < MaxCalls
    /\ \E connections \in Batches, fault \in Faults :
          \E r \in {detect_anomalies(anomaly_detector, connections, fault)} :
              /\ anomaly_detector' = r.self
              /\ scoreCall' = [NoCall EXCEPT
                     !.seq = scoreCall.seq + 1,
                     !.via = "detect_anomalies", !.connections = connections,
                     !.fault = fault, !.indices = r.indices,
                     !.scores = r.scores, !.error = r.error,
                     !.raised = r.raised, !.refit = r.refit,
                     !.predicted = r.predicted, !.afterFailure = scoreFailed,
                     !.response = "returned"]
              /\ scoreFailed' = (scoreFailed \/ r.error # "none")
    /\ UNCHANGED notDet

\* a contamination override that leaves the fitted flag as it is
WithContaminationKeepsFit(self, c) ==
    IF c.some /\ 0 <= c.v /\ c.v <= MaxContamination
    THEN [self EXCEPT !.contamination = c.v]
    ELSE self
\* get_anomalies lines 580-598: the overrides of a request
WithContamination(self, c) ==
    IF c.some /\ 0 <= c.v /\ c.v <= MaxContamination
    THEN [self EXCEPT !.contamination = c.v, !.is_fitted = FALSE]
    ELSE self
WithEstimators(self, n) ==
    IF n.some /\ n.v > 0
    THEN [self EXCEPT !.model = NoModel, !.is_fitted = FALSE,
                      !.n_estimators = n.v]
    ELSE self

\* GET /api/anomalies.  The records come from the acquisition chain; the
\* detail list, min_score filter and limit that follow the scoring only shape
\* the response.
GetAnomalies ==
    /\ scoreCall.seq < MaxCalls
    /\ \E connections \in Batches, o \in Overrides, fault \in Faults :
          \E early \in {Len(connections) = 0 \/ TooFew(Len(connections))},
             updated \in {WithEstimators(
                              WithContamination(anomaly_detector, o.c), o.n)} :
          \E r \in {IF early
                     THEN Outcome(anomaly_detector, << >>, << >>, "none",
                                  FALSE, FALSE)
                     ELSE detect_anomalies(updated, connections, fault)} :
              /\ anomaly_detector' = r.self
              /\ scoreCall' = [NoCall EXCEPT
                     !.seq = scoreCall.seq + 1,
                     !.via = "get_anomalies", !.connections = connections,
                     !.contamination = o.c, !.n_estimators = o.n,
                     !.fault = fault,
                     !.changed = (~early /\
                         (\/ updated.contamination # anomaly_detector.contamination
                          \/ updated.n_estimators # anomaly_detector.n_estimators)),
                     !.indices = r.indices, !.scores = r.scores,
                     !.error = r.error, !.raised = r.raised,
                     !.refit = r.refit, !.predicted = r.predicted,
                     !.afterFailure = scoreFailed,
                     !.response =
                         IF Len(connections) = 0 THEN "no_connections"
                         ELSE IF early THEN "too_few"
                         ELSE IF r.raised THEN "error"
                         ELSE IF r.indices = << >> THEN "none_detected"
                         ELSE "anomalies"]
              /\ scoreFailed' = (scoreFailed \/ r.error # "none")
    /\ UNCHANGED notDet

DetNext ==
    \/ DetectAnomalies
    \/ GetAnomalies

(***************************************************************************)
(* Aggregation: the aggregate_by_* methods and get_grouping_stats of       *)
(* conntrack_parser.py.  A connection is a dict as the parsers build it (a *)
(* function on the keys it holds); a defaultdict result is the sequence of *)
(* its items in insertion order, which is the order sorted() starts from.  *)
(***************************************************************************)
MaxRecords == 3       \* records of one batch handed to an aggregation

DefaultTopN == 20     \* top_n: int = 20

\* conn.get(key, default)
Get(conn, key, default) == IF key \in DOMAIN conn THEN conn[key] ELSE default

\* str.upper() on the texts of the vocabulary
Upper(s) ==
    CASE s = "tcp" -> "TCP"
      [] s = "udp" -> "UDP"
      [] s = "icmp" -> "ICMP"
      [] s = "unknown" -> "UNKNOWN"
      [] s = "established" -> "ESTABLISHED"
      [] OTHER -> s

\* x[0].isdigit() on the port texts of the vocabulary
IsDigitText(v) == v \in {"100", "50", "7"}

\* seq[:n]
Slice(s, n) ==
    IF n >= Len(s) THEN s
    ELSE IF n >= 0 THEN SubSeq(s, 1, n)
    ELSE IF Len(s) + n > 0 THEN SubSeq(s, 1, Len(s) + n)
    ELSE << >>

\* result[key] += 1 on a defaultdict(int)
Bump(items, key) ==
    IF \E i \in 1..Len(items) : items[i].key = key
    THEN [i \in 1..Len(items) |->
            IF items[i].key = key
            THEN [items[i] EXCEPT !.count = @ + 1]
            ELSE items[i]]
    ELSE Append(items, [key |-> key, count |-> 1])

\* the loop 'for conn in connections: result[key] += 1' over the keys
RECURSIVE Tally(_, _)
Tally(items, keys) ==
    IF keys = << >> THEN items ELSE Tally(Bump(items, Head(keys)), Tail(keys))

\* sorted(..., reverse=True) that puts an item before its equals
InsertBeforeEquals(sorted, x) ==
    LET ahead == Cardinality({i \in 1..Len(sorted) : sorted[i].rank > x.rank})
    IN  SubSeq(sorted, 1, ahead) \o <<x>> \o SubSeq(sorted, ahead + 1, Len(sorted))
\* one step of sorted(..., reverse=True): the sort is stable, so an item goes
\* behind every item of greater or equal rank that came before it
InsertDesc(sorted, x) ==
    LET ahead == Cardinality({i \in 1..Len(sorted) : sorted[i].rank >= x.rank})
    IN  SubSeq(sorted, 1, ahead) \o <<x>> \o SubSeq(sorted, ahead + 1, Len(sorted))

RECURSIVE SortDesc(_, _)
SortDesc(sorted, items) ==
    IF items = << >> THEN sorted
    ELSE SortDesc(InsertDesc(sorted, Head(items)), Tail(items))

\* sorted(result.items(), key=lambda x: x[1], reverse=True)
ByCount(items) ==
    SortDesc(<< >>, [i \in 1..Len(items) |->
        [key |-> items[i].key, count |-> items[i].count, rank |-> items[i].count]])
\* sorted(result.items(), key=lambda x: int(x[0]) if x[0].isdigit() else 0,
\*        reverse=True)
ByPortNumber(items) ==
    SortDesc(<< >>, [i \in 1..Len(items) |->
        [key |-> items[i].key, count |-> items[i].count,
         rank |-> IF IsDigitText(items[i].key) THEN IntOf(items[i].key) ELSE 0]])

\* the values of one field over the batch, 'unknown' (or another default)
\* where a record lacks it
FieldValues(connections, field, default) ==
    [i \in 1..Len(connections) |-> Get(connections[i], field, default)]

IsKnown(v) == v # "unknown"
UpperAll(values) == [i \in 1..Len(values) |-> Upper(values[i])]

\* a protocol count that leaves out the records without a protocol
aggregate_by_protocol_known(connections) ==
    Tally(<< >>, UpperAll(SelectSeq(FieldValues(connections, "protocol", "unknown"),
                                    IsKnown)))
aggregate_by_protocol(connections) ==
    Tally(<< >>, UpperAll(FieldValues(connections, "protocol", "unknown")))

aggregate_by_state(connections) ==
    Tally(<< >>, FieldValues(connections, "state", "UNKNOWN"))

\* the top-N shape of aggregate_by_source_ip / aggregate_by_destination_ip
TopIps(connections, field, top_n) ==
    LET sorted_result == ByCount(Tally(<< >>, FieldValues(connections, field, "unknown")))
    IN  [i \in 1..Len(Slice(sorted_result, top_n)) |->
            [ip |-> sorted_result[i].key, count |-> sorted_result[i].count]]
aggregate_by_source_ip(connections, top_n) == TopIps(connections, "src", top_n)
aggregate_by_destination_ip(connections, top_n) == TopIps(connections, "dst", top_n)

aggregate_by_port(connections, port_type, top_n) ==
    LET sorted_result ==
            ByPortNumber(Tally(<< >>,
                SelectSeq(FieldValues(connections, port_type, "unknown"), IsKnown)))
    IN  [i \in 1..Len(Slice(sorted_result, top_n)) |->
            [port |-> sorted_result[i].key, count |-> sorted_result[i].count]]

\* the grouping key of one record, "" where group_by names no dimension
GroupKey(conn, group_by) ==
    CASE group_by = "protocol" -> Upper(Get(conn, "protocol", "unknown"))
      [] group_by = "state" -> Get(conn, "state", "UNKNOWN")
      [] group_by = "src_ip" -> Get(conn, "src", "unknown")
      [] group_by = "dst_ip" -> Get(conn, "dst", "unknown")
      [] group_by = "sport" -> Get(conn, "sport", "unknown")
      [] group_by = "dport" -> Get(conn, "dport", "unknown")
      [] group_by = "port" ->
            Get(conn, "sport", "unknown") \o ":" \o Get(conn, "dport", "unknown")
      [] OTHER -> ""

\* if key and key != 'unknown'
Counted(key) == key # "" /\ key # "unknown"

\* stats[key]['count'] += 1 and the three byte sums
AddToStats(stats, key, conn) ==
    LET sent == Get(conn, "bytes_sent", 0)
        recv == Get(conn, "bytes_recv", 0)
    IN  IF \E i \in 1..Len(stats) : stats[i].key = key
        THEN [i \in 1..Len(stats) |->
                IF stats[i].key = key
                THEN [key |-> key, count |-> stats[i].count + 1,
                      bytes_sent |-> stats[i].bytes_sent + sent,
                      bytes_recv |-> stats[i].bytes_recv + recv,
                      total_bytes |-> stats[i].bytes_sent + sent
                                          + stats[i].bytes_recv + recv]
                ELSE stats[i]]
        ELSE Append(stats, [key |-> key, count |-> 1, bytes_sent |-> sent,
                            bytes_recv |-> recv, total_bytes |-> sent + recv])

RECURSIVE StatsLoop(_, _, _)
StatsLoop(stats, connections, group_by) ==
    IF connections = << >> THEN stats
    ELSE StatsLoop(IF Counted(GroupKey(Head(connections), group_by))
                   THEN AddToStats(stats, GroupKey(Head(connections), group_by),
                                   Head(connections))
                   ELSE stats,
                   Tail(connections), group_by)

get_grouping_stats(connections, group_by) == StatsLoop(<< >>, connections, group_by)

GroupDimensions == {"protocol", "state", "src_ip", "dst_ip", "sport", "dport", "port"}

\* The batches: records drawn from the pool of a profile.  "proto" varies
\* protocol and state, "ip" the addresses, "port" the ports and byte counts;
\* each pool has records that lack the fields it varies.
AggProfiles == {"proto", "ip", "port"}
RecordPool(pf) ==
    CASE pf = "proto" ->
            {[protocol |-> "tcp", state |-> "ESTABLISHED", src |-> "a", dst |-> "b"],
             [protocol |-> "udp", state |-> "NONE", src |-> "a", dst |-> "b"],
             [protocol |-> "TCP", state |-> "established", src |-> "a", dst |-> "b"],
             [src |-> "a", dst |-> "b"]}
      [] pf = "ip" ->
            {[protocol |-> "tcp", src |-> "a", dst |-> "b"],
             [protocol |-> "tcp", src |-> "b", dst |-> "a"],
             [protocol |-> "tcp", src |-> "c", dst |-> "c"],
             [protocol |-> "tcp"]}
      [] pf = "port" ->
            {[src |-> "a", sport |-> "100", dport |-> "7",
              bytes_sent |-> 100, bytes_recv |-> 50, total_bytes |-> 150],
             [src |-> "a", sport |-> "50", dport |-> "100",
              bytes_sent |-> 7, bytes_recv |-> 0, total_bytes |-> 7],
             [src |-> "a", dport |-> "x"],
             [src |-> "a"]}

TopNs == {0, 1, 2, DefaultTopN}

NoAggregation == [op |-> "none", arg |-> "", top_n |-> 0, out |-> << >>]

AggInit ==
    /\ aggProfile \in AggProfiles
    /\ aggBatch = << >>
    /\ aggCall = NoAggregation

\* the batch grows by a record
AddRecord ==
    /\ aggCall.op = "none"
    /\ Len(aggBatch) < MaxRecords
    /\ \E conn \in RecordPool(aggProfile) : aggBatch' = Append(aggBatch, conn)
    /\ UNCHANGED <<aggProfile, aggCall, notAgg>>

AggregateByProtocol ==
    /\ aggCall.op = "none"
    /\ aggCall' = [NoAggregation EXCEPT !.op = "aggregate_by_protocol",
                                        !.out = aggregate_by_protocol(aggBatch)]
    /\ UNCHANGED <<aggProfile, aggBatch, notAgg>>

AggregateByState ==
    /\ aggCall.op = "none"
    /\ aggCall' = [NoAggregation EXCEPT !.op = "aggregate_by_state",
                                        !.out = aggregate_by_state(aggBatch)]
    /\ UNCHANGED <<aggProfile, aggBatch, notAgg>>

AggregateBySourceIp ==
    /\ aggCall.op = "none"
    /\ \E top_n \in TopNs :
          aggCall' = [NoAggregation EXCEPT
                         !.op = "aggregate_by_source_ip", !.arg = "src",
                         !.top_n = top_n,
                         !.out = aggregate_by_source_ip(aggBatch, top_n)]
    /\ UNCHANGED <<aggProfile, aggBatch, notAgg>>

AggregateByDestinationIp ==
    /\ aggCall.op = "none"
    /\ \E top_n \in TopNs :
          aggCall' = [NoAggregation EXCEPT
                         !.op = "aggregate_by_destination_ip", !.arg = "dst",
                         !.top_n = top_n,
                         !.out = aggregate_by_destination_ip(aggBatch, top_n)]
    /\ UNCHANGED <<aggProfile, aggBatch, notAgg>>

AggregateByPort ==
    /\ aggCall.op = "none"
    /\ \E port_type \in {"sport", "dport"}, top_n \in TopNs :
          aggCall' = [NoAggregation EXCEPT
                         !.op = "aggregate_by_port", !.arg = port_type,
                         !.top_n = top_n,
                         !.out = aggregate_by_port(aggBatch, port_type, top_n)]
    /\ UNCHANGED <<aggProfile, aggBatch, notAgg>>

GetGroupingStats ==
    /\ aggCall.op = "none"
    /\ \E group_by \in GroupDimensions :
          aggCall' = [NoAggregation EXCEPT
                         !.op = "get_grouping_stats", !.arg = group_by,
                         !.out = get_grouping_stats(aggBatch, group_by)]
    /\ UNCHANGED <<aggProfile, aggBatch, notAgg>>

AggNext ==
    \/ AddRecord
    \/ AggregateByProtocol
    \/ AggregateByState
    \/ AggregateBySourceIp
    \/ AggregateByDestinationIp
    \/ AggregateByPort
    \/ GetGroupingStats

(***************************************************************************)
(* Time series: whole calls of save_snapshot, get_time_series and          *)
(* cleanup_old_data (database.py) on the two tables.  The clock counts     *)
(* minutes; here each ConnectionSnapshot row is kept with the record it    *)
(* was built from, and a day is shortened to DayLength minutes so that     *)
(* rows can age past a retention period within the clock's bound.          *)
(***************************************************************************)
MaxClock == 3         \* the clock of the time-series model stops here
MaxSaves == 2         \* save_snapshot calls in one behaviour
DayLength == 2        \* minutes in a (shortened) day

TcpA == [protocol |-> "tcp", state |-> "ESTABLISHED", src |-> "a", dst |-> "b",
         sport |-> "100", dport |-> "7",
         bytes_sent |-> 100, bytes_recv |-> 50, total_bytes |-> 150]
TcpB == [protocol |-> "tcp", state |-> "ESTABLISHED", src |-> "b", dst |-> "a",
         sport |-> "100", dport |-> "50",
         bytes_sent |-> 7, bytes_recv |-> 0, total_bytes |-> 7]
IcmpA == [protocol |-> "icmp", state |-> "NONE", src |-> "a", dst |-> "b",
          bytes_sent |-> 0, bytes_recv |-> 0, total_bytes |-> 0]
\* the records of a collection cycle
SeriesBatches == {<<TcpA>>, <<TcpA, TcpB, IcmpA>>}

\* one dimension of get_all_groupings(): its entries in dict order
GroupingEntries(connections, dim) ==
    LET stats == get_grouping_stats(connections, metric_type_map(dim))
    IN  [i \in 1..Len(stats) |->
            [dim |-> dim, key |-> stats[i].key, count |-> stats[i].count,
             bytes_sent |-> stats[i].bytes_sent, bytes_recv |-> stats[i].bytes_recv]]

RECURSIVE GroupingsFrom(_, _)
GroupingsFrom(connections, d) ==
    IF d > Len(Dimensions) THEN << >>
    ELSE GroupingEntries(connections, Dimensions[d]) \o GroupingsFrom(connections, d + 1)

\* parser.get_all_groupings(connections): the (dimension, key, value) entries
\* in the order save_snapshot's loops visit them
get_all_groupings(connections) == GroupingsFrom(connections, 1)

\* the ConnectionSnapshot rows of a batch
ConnectionRows(connections, ts, call) ==
    [i \in 1..Len(connections) |-> [ts |-> ts, by |-> call, conn |-> connections[i]]]
\* the MetricSnapshot rows of a metrics payload
MetricRows(metrics, ts, call) ==
    [i \in 1..Len(metrics) |-> MetricRow(metrics[i], ts, call)]

\* a rounding to the nearest multiple of the interval, halves upwards
round_time_nearest(dt, interval_minutes) ==
    LET minute == dt % 60
    IN  (dt - minute)
            + ((2 * minute + interval_minutes) \div (2 * interval_minutes))
                  * interval_minutes
\* _round_time: the minute of the hour cut down to a multiple of the
\* interval, seconds and microseconds zeroed
round_time(dt, interval_minutes) ==
    LET minute == dt % 60
    IN  (dt - minute) + (minute \div interval_minutes) * interval_minutes

\* a key filter that lets every key through
MatchesAnyKey(row, metric_key) == TRUE
\* if metric_key: query.filter(MetricSnapshot.metric_key == metric_key)
MatchesKey(row, metric_key) == metric_key = "" \/ row.metric_key = metric_key

\* the filters of get_time_series on one row
Selected(row, metric_type, metric_key, start_time, end_time) ==
    /\ row.metric_type = metric_type
    /\ MatchesKey(row, metric_key)
    /\ (start_time.some => row.ts >= start_time.v)
    /\ (end_time.some => row.ts <= end_time.v)

\* grouped[key] += ... for one result row
AddToBucket(grouped, row, interval_minutes) ==
    LET rounded_time == round_time(row.ts, interval_minutes)
    IN  IF \E i \in 1..Len(grouped) : grouped[i].timestamp = rounded_time
        THEN [i \in 1..Len(grouped) |->
                IF grouped[i].timestamp = rounded_time
                THEN [timestamp |-> rounded_time,
                      count |-> grouped[i].count + row.count,
                      bytes_sent |-> grouped[i].bytes_sent + row.bytes_sent,
                      bytes_recv |-> grouped[i].bytes_recv + row.bytes_recv,
                      total_bytes |-> grouped[i].total_bytes + row.total_bytes]
                ELSE grouped[i]]
        ELSE Append(grouped, [timestamp |-> rounded_time, count |-> row.count,
                              bytes_sent |-> row.bytes_sent,
                              bytes_recv |-> row.bytes_recv,
                              total_bytes |-> row.total_bytes])

RECURSIVE BucketLoop(_, _, _)
BucketLoop(grouped, results, interval_minutes) ==
    IF results = << >> THEN grouped
    ELSE BucketLoop(AddToBucket(grouped, Head(results), interval_minutes),
                    Tail(results), interval_minutes)

\* sorted(grouped.values(), key=lambda x: x['timestamp'])
ByTimestamp(grouped) ==
    LET ranked == SortDesc(<< >>, [i \in 1..Len(grouped) |->
                      [bucket |-> grouped[i], rank |-> 0 - grouped[i].timestamp]])
    IN  [i \in 1..Len(ranked) |-> ranked[i].bucket]

get_time_series(table, metric_type, metric_key, range, interval_minutes) ==
    LET results == SelectSeq(table,
                       LAMBDA row : Selected(row, metric_type, metric_key,
                                             range.start_time, range.end_time))
    IN  ByTimestamp(BucketLoop(<< >>, results, interval_minutes))

\* cutoff = datetime.now(timezone.utc) - timedelta(days=days_to_keep)
Cutoff(clock, days_to_keep) == clock - days_to_keep * DayLength

\* a delete that removes the oldest row below the cutoff only
DeleteFirstOlderThan(table, cutoff) ==
    IF \E i \in 1..Len(table) : table[i].ts < cutoff
    THEN LET f == CHOOSE i \in 1..Len(table) :
                      /\ table[i].ts < cutoff
                      /\ \A h \in 1..(i - 1) : ~(table[h].ts < cutoff)
         IN  SubSeq(table, 1, f - 1) \o SubSeq(table, f + 1, Len(table))
    ELSE table
\* session.query(...).filter(timestamp < cutoff).delete()
DeleteOlderThan(table, cutoff) == SelectSeq(table, LAMBDA row : ~(row.ts < cutoff))

\* session.query(MetricSnapshot).order_by(timestamp.asc()).first()
OldestTimestamp(table) == table[CHOOSE i \in DOMAIN table : \A j \in DOMAIN table : table[i].ts <= table[j].ts].ts
\* session.query(MetricSnapshot).order_by(timestamp.desc()).first().timestamp
LatestTimestamp(table) == table[CHOOSE i \in DOMAIN table : \A j \in DOMAIN table : table[j].ts <= table[i].ts].ts

\* metrics[type][key] = {...}: a new key is added last, a known key overwritten
PutKey(keys, row) ==
    LET value == [metric_key |-> row.metric_key, count |-> row.count,
                  bytes_sent |-> row.bytes_sent, bytes_recv |-> row.bytes_recv,
                  total_bytes |-> row.total_bytes]
    IN  IF \E i \in DOMAIN keys : keys[i].metric_key = row.metric_key
        THEN [i \in DOMAIN keys |->
                 IF keys[i].metric_key = row.metric_key THEN value ELSE keys[i]]
        ELSE Append(keys, value)

\* one result row put into the mapping type -> key -> values
PutMetric(metrics, row) ==
    IF \E i \in DOMAIN metrics : metrics[i].metric_type = row.metric_type
    THEN [i \in DOMAIN metrics |->
             IF metrics[i].metric_type = row.metric_type
             THEN [metrics[i] EXCEPT !.keys = PutKey(@, row)]
             ELSE metrics[i]]
    ELSE Append(metrics, [metric_type |-> row.metric_type,
                          keys |-> PutKey(<< >>, row)])

RECURSIVE MetricsLoop(_, _)
MetricsLoop(metrics, results) ==
    IF results = << >> THEN metrics
    ELSE MetricsLoop(PutMetric(metrics, Head(results)), Tail(results))

\* get_all_metrics_at_time(timestamp); None asks for the latest
get_all_metrics_at_time(table, timestamp) ==
    IF ~timestamp.some /\ table = << >> THEN << >>
    ELSE LET at == IF timestamp.some THEN timestamp.v ELSE LatestTimestamp(table)
         IN  MetricsLoop(<< >>, SelectSeq(table, LAMBDA row : row.ts = at))

RetentionDays == {0, 1}
SeriesTypes == {"protocol", "src_ip"}
\* "" stands for metric_key=None
SeriesKeys == {"", "TCP", "a"}
Intervals == {1, 2}
\* start_time and end_time of a query made when the clock reads t
Ranges(t) ==
    {[start_time |-> None, end_time |-> None],
     [start_time |-> Some(0), end_time |-> Some(t)],
     [start_time |-> Some(t), end_time |-> Some(t)]}

NoDbCall == [op |-> "none", pruned |-> FALSE]

\* the minute the clock reads at the start: two minutes before the hour ends
ClockStarts == {58}

SeriesInit ==
    /\ now \in ClockStarts
    /\ connTable = << >>
    /\ metricTable = << >>
    /\ dbLock = "none"
    /\ callSeq = 0
    /\ proc = [p \in Procs |-> IdleProc]
    /\ dbCall = NoDbCall

\* save_snapshot(connections, metrics) run to its commit, called as
\* collect_snapshot calls it below LargeDataset records: metrics is the
\* get_all_groupings of the same records
SaveSnapshot ==
    /\ callSeq < MaxSaves
    /\ \E connections \in SeriesBatches :
          /\ connTable' = connTable \o ConnectionRows(connections, now, callSeq + 1)
          /\ metricTable' = metricTable \o
                 MetricRows(get_all_groupings(connections), now, callSeq + 1)
          /\ dbCall' = [op |-> "save_snapshot", call |-> callSeq + 1, ts |-> now,
                        pruned |-> dbCall.pruned]
    /\ callSeq' = callSeq + 1
    /\ UNCHANGED <<now, dbLock, proc, notSeries>>

\* the read-only calls
Queries == {"get_time_series", "get_all_metrics_at_time"}

\* a query changes no table, so one directly after a query finds what a query
\* in its place finds
GetTimeSeries ==
    /\ dbCall.op \notin Queries
    /\ \E metric_type \in SeriesTypes, metric_key \in SeriesKeys,
          range \in Ranges(now), interval_minutes \in Intervals :
          dbCall' = [op |-> "get_time_series", metric_type |-> metric_type,
                     metric_key |-> metric_key,
                     start_time |-> range.start_time, end_time |-> range.end_time,
                     interval_minutes |-> interval_minutes,
                     out |-> get_time_series(metricTable, metric_type, metric_key,
                                             range, interval_minutes),
                     pruned |-> dbCall.pruned]
    /\ UNCHANGED <<now, connTable, metricTable, dbLock, callSeq, proc, notSeries>>

\* a call of get_all_metrics_at_time; app.py calls it with no argument
GetAllMetricsAtTime ==
    /\ dbCall.op \notin Queries
    /\ \E timestamp \in {None, Some(now)} :
          dbCall' = [op |-> "get_all_metrics_at_time", timestamp |-> timestamp,
                     out |-> get_all_metrics_at_time(metricTable, timestamp),
                     pruned |-> dbCall.pruned]
    /\ UNCHANGED <<now, connTable, metricTable, dbLock, callSeq, proc, notSeries>>

\* cleanup_old_data(days_to_keep); the record of the call also says whether
\* the call before it was a cleanup with the same argument, and what that
\* one computed and removed
CleanupOldData ==
    /\ \E days_to_keep \in RetentionDays :
          LET cutoff == Cutoff(now, days_to_keep)
              repeat == /\ dbCall.op = "cleanup_old_data"
                        /\ dbCall.days_to_keep = days_to_keep
          IN  /\ connTable' = DeleteOlderThan(connTable, cutoff)
              /\ metricTable' = DeleteOlderThan(metricTable, cutoff)
              /\ dbCall' = [op |-> "cleanup_old_data", days_to_keep |-> days_to_keep,
                            cutoff |-> cutoff,
                            conn_before |-> Len(connTable),
                            conn_after |-> Len(connTable'),
                            metric_before |-> Len(metricTable),
                            metric_after |-> Len(metricTable'),
                            repeat |-> repeat,
                            prev_cutoff |-> IF repeat THEN dbCall.cutoff ELSE cutoff,
                            prev_removed |->
                                IF repeat THEN dbCall.conn_before - dbCall.conn_after
                                ELSE 0,
                            pruned |-> TRUE]
    /\ UNCHANGED <<now, dbLock, callSeq, proc, notSeries>>

\* a minute passes
SeriesTick ==
    /\ \E start \in ClockStarts : start <= now /\ now < start + MaxClock
    /\ now' = now + 1
    /\ UNCHANGED <<connTable, metricTable, dbLock, callSeq, proc, dbCall, notSeries>>

SeriesNext ==
    \/ SaveSnapshot
    \/ GetTimeSeries
    \/ GetAllMetricsAtTime
    \/ CleanupOldData
    \/ SeriesTick

(***************************************************************************)
(* The normalised columns of the feature vector.  _extract_features divides *)
(* the three byte counters and the destination port of each record by a    *)
(* maximum it takes over the batch.  A quotient is kept in hundredths,     *)
(* rounded down.  A record is the five fields these columns read; ports    *)
(* are strings, as the parsers leave them.                                 *)
(***************************************************************************)
MaxFeatRecords == 2    \* records of one batch

\* str.isdigit() and int() on the port strings of the pool
PortIsDigit(s) == s \in {"0", "1", "4", "8"}
PortValue(s) ==
    CASE s = "0" -> 0
      [] s = "1" -> 1
      [] s = "4" -> 4
      [] s = "8" -> 8
      [] OTHER -> 0
\* int(port) if port.isdigit() else 0
PortInt(s) == IF PortIsDigit(s) THEN PortValue(s) ELSE 0

\* value / maximum if maximum > 0 else 0
Norm(value, maximum) == IF maximum > 0 THEN (value * 100) \div maximum ELSE 0

\* the values of the list ports: the source and the destination port of
\* every record
Ports(connections) ==
    {PortInt(connections[i].sport) : i \in DOMAIN connections}
        \cup {PortInt(connections[i].dport) : i \in DOMAIN connections}

\* max(bytes_sent_list), max(bytes_recv_list), max(total_bytes_list)
MaxBytes(connections, field) ==
    MaxOf({connections[i][field] : i \in DOMAIN connections})

\* _extract_features, columns 3 to 6 of each vector
normalised_features(connections) ==
    IF connections = << >> THEN << >>
    ELSE LET max_port == MaxOf(Ports(connections))
         IN  [i \in DOMAIN connections |->
                [bytes_sent_norm |->
                     Norm(connections[i].bytes_sent, MaxBytes(connections, "bytes_sent")),
                 bytes_recv_norm |->
                     Norm(connections[i].bytes_recv, MaxBytes(connections, "bytes_recv")),
                 total_bytes_norm |->
                     Norm(connections[i].total_bytes, MaxBytes(connections, "total_bytes")),
                 port_norm |-> Norm(PortInt(connections[i].dport), max_port)]]

FeatSports == {"1", "8"}
FeatDports == {"0", "4", "http"}
FeatBytes == {<<0, 0>>, <<4, 2>>, <<2, 4>>}
FeatRecords ==
    {[sport |-> sp, dport |-> dp, bytes_sent |-> b[1], bytes_recv |-> b[2],
      total_bytes |-> b[1] + b[2]] : sp \in FeatSports, dp \in FeatDports, b \in FeatBytes}

NotExtracted == [done |-> FALSE, features |-> << >>]

FeatInit ==
    /\ featBatch = << >>
    /\ featOut = NotExtracted

\* the batch grows by a record
AddFeatRecord ==
    /\ ~featOut.done
    /\ Len(featBatch) < MaxFeatRecords
    /\ \E c \in FeatRecords : featBatch' = Append(featBatch, c)
    /\ UNCHANGED <<featOut, notFeat>>

\* self._extract_features(connections)
ExtractFeatures ==
    /\ ~featOut.done
    /\ featOut' = [done |-> TRUE, features |-> normalised_features(featBatch)]
    /\ UNCHANGED <<featBatch, notFeat>>

FeatNext == AddFeatRecord \/ ExtractFeatures

(***************************************************************************)
(* Specifications: one per component, the other components at rest.        *)
(***************************************************************************)
ParseIdle ==
    profile = "addr" /\ lines = << >> /\ parsedBy = "none" /\ parsedOut = << >>
AcqIdle ==
    /\ srcOutcome = [s \in Sources |-> [res |-> "notfound", out |-> EmptyText]]
    /\ acqMode = "none" /\ acqResult = << >> /\ acqRaised = "" /\ acqTried = << >>

AggIdle == aggProfile = "proto" /\ aggBatch = << >> /\ aggCall = NoAggregation
SeriesIdle == dbCall = NoDbCall
FeatIdle == featBatch = << >> /\ featOut = NotExtracted

InitParse == ParseInit /\ AcqIdle /\ StoreInit /\ DetInit /\ AggIdle /\ SeriesIdle /\ FeatIdle
InitAcq == AcqInit /\ ParseIdle /\ StoreInit /\ DetInit /\ AggIdle /\ SeriesIdle /\ FeatIdle
InitStore == StoreInit /\ ParseIdle /\ AcqIdle /\ DetInit /\ AggIdle /\ SeriesIdle /\ FeatIdle
InitDet == DetInit /\ ParseIdle /\ AcqIdle /\ StoreInit /\ AggIdle /\ SeriesIdle /\ FeatIdle
InitAgg == AggInit /\ ParseIdle /\ AcqIdle /\ StoreInit /\ DetInit /\ SeriesIdle /\ FeatIdle
InitSeries == SeriesInit /\ ParseIdle /\ AcqIdle /\ DetInit /\ AggIdle /\ FeatIdle
InitFeat ==
    FeatInit /\ ParseIdle /\ AcqIdle /\ StoreInit /\ DetInit /\ AggIdle /\ SeriesIdle

SpecParse == InitParse /\ [][ParseNext]_vars
SpecAcq == InitAcq /\ [][AcqNext]_vars
SpecStore == InitStore /\ [][StoreNext]_vars
SpecDet == InitDet /\ [][DetNext]_vars
SpecAgg == InitAgg /\ [][AggNext]_vars
SpecSeries == InitSeries /\ [][SeriesNext]_vars
SpecFeat == InitFeat /\ [][FeatNext]_vars


(***************************************************************************)
(* Acquisition claims                                                      *)
(***************************************************************************)
\* the records a source's text parses to (none when the source gives no text)
SourceRecords(s) ==
    IF srcOutcome[s].res # "ok" THEN << >>
    ELSE IF IsTool(s) THEN parse_conntrack_output(srcOutcome[s].out)
    ELSE parse_proc_conntrack(srcOutcome[s].out)

\* the source fails: an error, a non-zero exit or an empty output
SourceFails(s) == srcOutcome[s].res # "ok" \/ ~NonBlank(srcOutcome[s].out)

\* the first source, in the order 1..5, that yields at least one record
FirstYielding ==
    IF \E s \in Sources : SourceRecords(s) # << >>
    THEN CHOOSE s \in Sources :
            SourceRecords(s) # << >> /\ \A t \in 1..(s - 1) : SourceRecords(t) = << >>
    ELSE 0

\* C1: get_conntrack_data returns the records of the first source, in the
\* order extended, extended+numeric, default, nf_conntrack, ip_conntrack, that
\* yields at least one parsed record; a source whose non-empty output parses
\* to no record is passed over and the next one is tried.
C1_FirstSourceWithRecords ==
    (acqMode = "sync" /\ acqRaised = "") =>
        /\ acqTried = [i \in 1..Len(acqTried) |-> i]
        /\ acqResult = (IF FirstYielding = 0 THEN << >> ELSE SourceRecords(FirstYielding))

\* C2: whatever each source does (tool not found, permission denied,
\* timeout, non-zero exit, empty output, unreadable pseudo-file), neither
\* variant raises; a failing source is followed by the next one, and when all
\* five fail the result is the empty sequence.
C2_NeverRaises ==
    acqMode # "none" =>
        /\ acqRaised = ""
        /\ \A i \in 1..Len(acqTried) :
               (SourceFails(acqTried[i]) /\ (acqTried[i] < 5 \/ i < Len(acqTried)))
                   => (i < Len(acqTried)
                       /\ acqTried[i + 1] = (IF acqMode = "async" /\ i = 2
                                             THEN 1 ELSE acqTried[i] + 1))
        /\ (\A s \in Sources : SourceFails(s)) => (acqResult = << >> /\ 5 \in Range(acqTried))

C2_Witness ==
    /\ acqMode = "sync"
    /\ srcOutcome[1].res = "timeout"
    /\ srcOutcome[2].res = "denied"
    /\ srcOutcome[3].res = "nonzero"
    /\ srcOutcome[4].res = "notfound"
    /\ srcOutcome[5].res = "denied"
    /\ acqTried = <<1, 2, 3, 4, 5>>
    /\ acqResult = << >>
    /\ acqRaised = ""

\* C19: for every assignment of outcomes to the five sources,
\* get_conntrack_data and get_conntrack_data_async return the same record
\* sequence, and one raises only if the other does.
C19_VariantsAgree ==
    /\ acqMode = "async" =>
          /\ acqResult = get_conntrack_data(srcOutcome, << >>).value
          /\ (acqRaised # "") <=> (get_conntrack_data(srcOutcome, << >>).kind = "raise")
    /\ acqMode = "sync" =>
          /\ acqResult = get_conntrack_data_async(srcOutcome).value
          /\ (acqRaised # "") <=> (get_conntrack_data_async(srcOutcome).kind = "raise")

\* the non-blocking variant fell through its own two steps and got the
\* records of the third source from the blocking one
C19_Witness ==
    /\ acqMode = "async"
    /\ srcOutcome[1].res = "timeout"
    /\ srcOutcome[2].res = "nonzero"
    /\ srcOutcome[3] = [res |-> "ok", out |-> ValidText(3)]
    /\ acqTried = <<1, 2, 1, 2, 3>>
    /\ Len(acqResult) = 1
    /\ acqResult = get_conntrack_data(srcOutcome, << >>).value


(***************************************************************************)
(* Store and cycle claims                                                  *)
(***************************************************************************)
NoRowsBy(c) ==
    /\ \A i \in 1..Len(connTable) : connTable[i].by # c
    /\ \A i \in 1..Len(metricTable) : metricTable[i].by # c

IsPrefix(a, b) == Len(a) <= Len(b) /\ SubSeq(b, 1, Len(a)) = a

\* the step in which save_snapshot raises out of thread p
SaveRaises(p) == proc[p].pc = "rollback" /\ proc'[p].pc = "raised"
\* the step in which save_snapshot of thread p commits
SaveCommits(p) == proc[p].pc = "commit" /\ proc'[p].pc = "done"

\* C3: save_snapshot is all-or-nothing.  When a write of the call fails (in
\* a chunk, in the metric rows or in the commit), the call ends raising the
\* error, none of its rows is in either table, and the tables are as they
\* were; rows only ever enter the tables in the step that commits their call,
\* all at once, after the rows already there.
C3_AllOrNothing ==
    [][ /\ \A p \in Procs :
              SaveRaises(p) =>
                  /\ proc'[p].saveResult = "raised"
                  /\ proc'[p].err \in WriteErrors
                  /\ NoRowsBy(proc[p].call)'
                  /\ connTable' = connTable
                  /\ metricTable' = metricTable
        /\ (connTable' # connTable \/ metricTable' # metricTable) =>
              \E p \in Procs :
                  /\ SaveCommits(p)
                  /\ IsPrefix(connTable, connTable')
                  /\ IsPrefix(metricTable, metricTable')
                  /\ \A i \in (Len(connTable) + 1)..Len(connTable') :
                         connTable'[i].by = proc[p].call
                  /\ \A i \in (Len(metricTable) + 1)..Len(metricTable') :
                         metricTable'[i].by = proc[p].call
      ]_vars

\* a call failed after it had flushed a chunk, has raised, and the rows of an
\* earlier cycle are in the tables
C3_Witness ==
    \E p \in Procs :
        /\ proc[p].pc = "raised"
        /\ proc[p].saveResult = "raised"
        /\ proc[p].partial
        /\ NoRowsBy(proc[p].call)
        /\ connTable # << >>
        /\ metricTable # << >>

\* C4: when save_snapshot fails inside collect_snapshot, the error leaves
\* collect_snapshot (it reaches the scheduler or the caller) instead of being
\* swallowed.
C4_SaveFailureSurfaces ==
    \A p \in Procs :
        (proc[p].pc = "done" /\ proc[p].saveResult = "raised") => proc[p].cycleRaised

RECURSIVE SumRows(_)
SumRows(chunks) ==
    IF chunks = << >> THEN 0 ELSE Head(chunks).rows + SumRows(Tail(chunks))

\* what a step appended to a table
Appended(old, new) == SubSeq(new, Len(old) + 1, Len(new))

\* C26: a successful save_snapshot(records, metrics) appends exactly one
\* ConnectionSnapshot row per input record (none lost or doubled at a chunk
\* boundary, with chunks of 1000 and of 500) and exactly one MetricSnapshot
\* row per (dimension, key) pair of metrics, and all rows of the call, in
\* both tables, carry one and the same timestamp.
C26_OneRowPerInput ==
    [][ \A p \in Procs :
           SaveCommits(p) =>
               LET q == proc[p]
                   conns == Appended(connTable, connTable')
                   mets == Appended(metricTable, metricTable')
               IN  /\ IsPrefix(connTable, connTable')
                   /\ IsPrefix(metricTable, metricTable')
                   /\ SumRows(conns) = q.n
                   /\ \A k \in DOMAIN conns :
                          /\ conns[k].rows \in 1..batch_size(q.n)
                          /\ conns[k].ts = q.ts
                   /\ Len(mets) = Len(q.metrics)
                   /\ \A k \in DOMAIN mets :
                          /\ mets[k].ts = q.ts
                          /\ mets[k].metric_type = metric_type_map(q.metrics[k].dim)
                          /\ mets[k].metric_key = q.metrics[k].key
                   /\ \A j, k \in DOMAIN mets :
                          (/\ mets[j].metric_type = mets[k].metric_type
                           /\ mets[j].metric_key = mets[k].metric_key) => j = k
      ]_vars

\* the places in connTable of the chunks a call committed
ChunksOf(c) == {i \in DOMAIN connTable : connTable[i].by = c}
\* those of them that hold r rows
ChunksOfSize(c, r) == {i \in ChunksOf(c) : connTable[i].rows = r}

\* one committed call saved 100001 records in 200 chunks of 500 and one of 1,
\* another 1001 records in a chunk of 1000 and one of 1 with two metric rows
C26_Witness ==
    \E c, d \in 1..callSeq :
        /\ Cardinality(ChunksOf(c)) = 201
        /\ Cardinality(ChunksOfSize(c, BatchSizeHuge)) = 200
        /\ Cardinality(ChunksOfSize(c, 1)) = 1
        /\ Cardinality(ChunksOf(d)) = 2
        /\ Cardinality(ChunksOfSize(d, BatchSizeNormal)) = 1
        /\ Cardinality(ChunksOfSize(d, 1)) = 1
        /\ Cardinality({i \in DOMAIN metricTable : metricTable[i].by = d}) = 2

\* the MetricSnapshot rows in table that call c saved at timestamp ts
MetricRowsOf(table, c, ts) == {i \in DOMAIN table : table[i].by = c /\ table[i].ts = ts}

\* C27: every collection cycle that acquires at least one record persists the
\* groupings payload: when collect_snapshot completes successfully with a
\* non-empty acquisition, the store holds MetricSnapshot rows of that cycle,
\* with its timestamp, whatever the number of acquired records.
C27_PayloadPersisted ==
    [][ \A p \in Procs :
           (SaveCommits(p) /\ proc[p].n > 0) =>
               MetricRowsOf(metricTable', proc[p].call, proc[p].ts) # {} ]_vars

\* C27 amended: a cycle that acquires between 1 and LargeDataset records and
\* completes successfully leaves MetricSnapshot rows of the cycle, with its
\* timestamp, one per pair of the groupings; a cycle that acquires more than
\* LargeDataset records saves its connection rows and no MetricSnapshot row.
C27_PayloadPersistedUpToLarge ==
    [][ \A p \in Procs :
           (SaveCommits(p) /\ proc[p].n > 0) =>
               LET saved == MetricRowsOf(metricTable', proc[p].call, proc[p].ts)
               IN  IF proc[p].n <= LargeDataset
                   THEN saved # {} /\ Cardinality(saved) = Len(proc[p].metrics)
                   ELSE /\ saved = {}
                        /\ connTable' # connTable ]_vars

\* a cycle of 1001 records has returned with its two metric rows in the store,
\* and a cycle of 50001 records has returned with its 51 chunks and no metric row
C27_Witness ==
    \E p, q \in Procs :
        /\ proc[p].pc = "done" /\ proc[p].saveResult = "ok"
        /\ proc[q].pc = "done" /\ proc[q].saveResult = "ok"
        /\ Cardinality(ChunksOf(proc[p].call)) = 2
        /\ Cardinality({i \in DOMAIN metricTable : metricTable[i].by = proc[p].call}) = 2
        /\ Cardinality(ChunksOf(proc[q].call)) = 51
        /\ {i \in DOMAIN metricTable : metricTable[i].by = proc[q].call} = {}

\* the thread is inside collect_snapshot: past its start, not yet returned
InCycle(p) == proc[p].pc \notin {"idle", "done"}

\* C20: at most one collection cycle runs at any time: the start-up call of
\* collect_snapshot and a scheduler-triggered run are never both under way,
\* so two save_snapshot transactions never overlap.
C20_OneCycleAtATime == ~(InCycle("initial") /\ InCycle("sched"))


(***************************************************************************)
(* Parser claims                                                           *)
(***************************************************************************)
\* the sub-parser that was run, as a function of a text
RanParser(text) ==
    IF parsedBy = "cmd" THEN parse_conntrack_output(text) ELSE parse_proc_conntrack(text)

\* the raw line carries a key=value token with this key
LineHasKey(parts, key) == \E i \in 1..Len(parts) : parts[i].t = "kv" /\ parts[i].k = key
\* the value of the first key=value token of the raw line with this key
FirstValue(parts, key) ==
    LET i == CHOOSE n \in 1..Len(parts) :
                 /\ parts[n].t = "kv" /\ parts[n].k = key
                 /\ \A m \in 1..(n - 1) : ~(parts[m].t = "kv" /\ parts[m].k = key)
    IN  parts[i].v
\* the key occurs more than once in the raw line
Repeats(parts, key) ==
    Cardinality({i \in 1..Len(parts) : parts[i].t = "kv" /\ parts[i].k = key}) > 1

WellFormedLine(parts) ==
    Len(parts) >= 4 /\ LineHasKey(parts, "src") /\ LineHasKey(parts, "dst")
YieldsRecord(parts) == RanParser(<<parts>>) # << >>

\* C9: every record either sub-parser returns has both src and dst, and the
\* output is the output for the text with every line of fewer than 4 tokens
\* or without src or without dst deleted: such a line yields no record and
\* does not change the records of the other lines.
C9_OnlyValidRecords ==
    parsedBy # "none" =>
        /\ \A i \in 1..Len(parsedOut) : {"src", "dst"} \subseteq DOMAIN parsedOut[i]
        /\ parsedOut = RanParser(SelectSeq(Text(lines), WellFormedLine))
        /\ Len(parsedOut) <= Len(SelectSeq(Text(lines), WellFormedLine))

C9_Witness ==
    /\ parsedBy = "cmd"
    /\ Len(lines) = 2
    /\ Len(parsedOut) = 1
    /\ \E i \in 1..2 : Len(Parts(lines[i])) >= 4 /\ ~LineHasKey(Parts(lines[i]), "dst")

\* the raw line starts with the leading tokens of a layout the sub-parser
\* that was run is written for
StartsWith(parts, ld) == Len(parts) >= Len(ld) /\ SubSeq(parts, 1, Len(ld)) = ld
InOwnLayout(parts) ==
    IF parsedBy = "cmd"
    THEN StartsWith(parts, DefaultLead) \/ StartsWith(parts, ExtendedLead)
    ELSE StartsWith(parts, ExtendedLead)

\* C10: for every raw line in which src, dst, sport or dport occurs more
\* than once, the record parsed from it carries the first occurrence's value
\* of that key, for the command-output parser and the pseudo-file parser
\* (stated for the lines that start as the sub-parser's layout does).
C10_FirstOccurrenceWins ==
    parsedBy # "none" =>
        LET src == SelectSeq(Text(lines), YieldsRecord)
        IN  \A i \in 1..Len(parsedOut) :
                \A key \in {"src", "dst", "sport", "dport"} :
                    (i <= Len(src) /\ InOwnLayout(src[i]) /\ Repeats(src[i], key))
                        => parsedOut[i][key] = FirstValue(src[i], key)

\* the bytes= tokens of a raw line, in the line's order
IsBytes(p) == p.t = "kv" /\ p.k = "bytes"
BytesTokens(parts) == SelectSeq(parts, IsBytes)
\* the count a bytes= token stands for, 0 when its value is not an integer
BytesValue(p) == IF IsIntText(p.v) THEN IntOf(p.v) ELSE 0
NthBytes(parts, n) ==
    IF Len(BytesTokens(parts)) >= n THEN BytesValue(BytesTokens(parts)[n]) ELSE 0

\* C11: in every record of the command-output parser bytes_sent is the value
\* of the line's first bytes= token, bytes_recv the value of its second one
\* (0 for a missing one) and total_bytes their sum, however many bytes=
\* tokens the line has and also when a value is not an integer.
C11_BytesPositional ==
    parsedBy = "cmd" =>
        LET src == SelectSeq(Text(lines), YieldsRecord)
        IN  \A i \in 1..Len(parsedOut) :
                i <= Len(src) =>
                    /\ parsedOut[i]["bytes_sent"] = NthBytes(src[i], 1)
                    /\ parsedOut[i]["bytes_recv"] = NthBytes(src[i], 2)
                    /\ parsedOut[i]["total_bytes"] =
                           NthBytes(src[i], 1) + NthBytes(src[i], 2)

\* C12: every record of either sub-parser carries the integer fields
\* bytes_sent, bytes_recv and total_bytes, with total_bytes their sum; the
\* byte fields are never left out.
C12_ByteFieldsPresent ==
    parsedBy # "none" =>
        \A i \in 1..Len(parsedOut) :
            /\ {"bytes_sent", "bytes_recv", "total_bytes"} \subseteq DOMAIN parsedOut[i]
            /\ parsedOut[i]["bytes_sent"] \in Nat
            /\ parsedOut[i]["bytes_recv"] \in Nat
            /\ parsedOut[i]["total_bytes"] =
                   parsedOut[i]["bytes_sent"] + parsedOut[i]["bytes_recv"]

\* the index of the state token in the line's layout
StateOffset(parts) == IF IsExtended(parts) THEN 5 ELSE 3
\* the line has a token at the state offset, and it is a key=value pair, a
\* number or a bracket group
NoStateAtOffset(parts) ==
    /\ Len(parts) > StateOffset(parts)
    /\ At(parts, StateOffset(parts)).t \in {"kv", "num", "flag"}
\* the line with the word NONE put in at the state offset
WithStateNone(parts) ==
    SubSeq(parts, 1, StateOffset(parts)) \o <<Word("NONE")>>
        \o From(parts, StateOffset(parts))

\* C23: in the command-output parser, when the token at the state offset
\* (index 3 in the default layout, 5 in the extended one) is a key=value
\* pair, a number or a bracket group, the record's state is "NONE" and the
\* offset does not advance: the record is the one of the line with an
\* explicit NONE in front of that token, so a src, dst, sport, dport or bytes
\* value or a flag group at that position is in the record.
C23_StatelessOffset ==
    parsedBy = "cmd" =>
        LET src == SelectSeq(Text(lines), YieldsRecord)
        IN  \A i \in 1..Len(parsedOut) :
                (i <= Len(src) /\ NoStateAtOffset(src[i])) =>
                    LET tok == At(src[i], StateOffset(src[i]))
                        rec == parsedOut[i]
                    IN  /\ rec["state"] = "NONE"
                        /\ <<rec>> = ParseCmdLine(WithStateNone(src[i]))
                        /\ (tok.t = "kv" /\ tok.k \in {"src", "dst", "sport", "dport"})
                               => (tok.k \in DOMAIN rec /\ rec[tok.k] = tok.v)
                        /\ (tok.t = "kv" /\ tok.k = "bytes" /\ IsIntText(tok.v))
                               => rec["bytes_sent"] = IntOf(tok.v)
                        /\ tok.t = "flag" => "flags" \in DOMAIN rec

\* a default-layout line with bytes=7 at the state offset gave a record with
\* state NONE and that byte count
C23_Witness ==
    /\ parsedBy = "cmd"
    /\ Len(lines) = 1
    /\ Len(parsedOut) = 1
    /\ lines[1].lead = DefaultLead
    /\ lines[1].free = <<Bytes7, SrcA, DstA>>
    /\ parsedOut[1]["state"] = "NONE"
    /\ parsedOut[1]["bytes_sent"] = 7

(***************************************************************************)
(* Aggregation claims                                                      *)
(***************************************************************************)
RECURSIVE TotalCount(_)
TotalCount(items) ==
    IF items = << >> THEN 0 ELSE Head(items).count + TotalCount(Tail(items))

\* the record carries the field(s) the dimension groups by
HasGroupedField(conn, group_by) ==
    CASE group_by = "protocol" -> "protocol" \in DOMAIN conn
      [] group_by = "state" -> "state" \in DOMAIN conn
      [] group_by = "src_ip" -> "src" \in DOMAIN conn
      [] group_by = "dst_ip" -> "dst" \in DOMAIN conn
      [] group_by = "sport" -> "sport" \in DOMAIN conn
      [] group_by = "dport" -> "dport" \in DOMAIN conn
      [] group_by = "port" -> {"sport", "dport"} \subseteq DOMAIN conn

\* the records of the batch whose key for the called dimension is known
RecordsWithField ==
    {i \in 1..Len(aggBatch) : HasGroupedField(aggBatch[i], aggCall.arg)}

\* C13: aggregate_by_port(kind, n) returns at most n entries, in strictly
\* descending order of the numeric port value, none of them for an absent or
\* a non-numeric port, for every batch and every n >= 0.
C13_TopPortsNumeric ==
    (aggCall.op = "aggregate_by_port" /\ aggCall.top_n >= 0) =>
        /\ Len(aggCall.out) <= aggCall.top_n
        /\ \A k \in 1..Len(aggCall.out) :
               /\ aggCall.out[k].port # "unknown"
               /\ IsDigitText(aggCall.out[k].port)
        /\ \A j, k \in 1..Len(aggCall.out) :
               j < k => IntOf(aggCall.out[j].port) > IntOf(aggCall.out[k].port)

\* C14: get_grouping_stats leaves out every record whose grouping key is
\* unknown, in each of the seven dimensions: a record without the grouped
\* field (for port: without sport or without dport) is counted in no bucket,
\* and every bucket is the key of a record that has the field.
C14_UnknownExcluded ==
    aggCall.op = "get_grouping_stats" =>
        /\ TotalCount(aggCall.out) = Cardinality(RecordsWithField)
        /\ \A k \in 1..Len(aggCall.out) :
               \E i \in RecordsWithField :
                   GroupKey(aggBatch[i], aggCall.arg) = aggCall.out[k].key

\* C15: the counts aggregate_by_protocol returns for a batch of N records sum
\* to N, records without a protocol included.
C15_ProtocolCountsSum ==
    aggCall.op = "aggregate_by_protocol" =>
        TotalCount(aggCall.out) = Len(aggBatch)

\* a batch with a record that has no protocol was counted
C15_Witness ==
    /\ aggCall.op = "aggregate_by_protocol"
    /\ Len(aggBatch) >= 2
    /\ \E i \in 1..Len(aggBatch) : "protocol" \notin DOMAIN aggBatch[i]
    /\ \E i \in 1..Len(aggBatch) : "protocol" \in DOMAIN aggBatch[i]
    /\ \E k \in 1..Len(aggCall.out) : aggCall.out[k].key = "UNKNOWN"

\* where the address first appears in the batch, in the called field
FirstAppearance(ip) ==
    CHOOSE i \in 1..Len(aggBatch) :
        /\ Get(aggBatch[i], aggCall.arg, "unknown") = ip
        /\ \A h \in 1..(i - 1) : Get(aggBatch[h], aggCall.arg, "unknown") # ip
Occurrences(ip) ==
    Cardinality({i \in 1..Len(aggBatch) :
                    Get(aggBatch[i], aggCall.arg, "unknown") = ip})

\* C16: aggregate_by_source_ip / aggregate_by_destination_ip (n >= 0) return
\* at most n entries, each with the number of records of its address, ordered
\* by count descending, equal counts in the order in which the addresses
\* first appear in the batch.
C16_TopIpsOrder ==
    aggCall.op \in {"aggregate_by_source_ip", "aggregate_by_destination_ip"} =>
        /\ Len(aggCall.out) <= aggCall.top_n
        /\ \A k \in 1..Len(aggCall.out) :
               /\ aggCall.out[k].count = Occurrences(aggCall.out[k].ip)
               /\ aggCall.out[k].count > 0
        /\ \A j, k \in 1..Len(aggCall.out) :
               j < k =>
                   \/ aggCall.out[j].count > aggCall.out[k].count
                   \/ /\ aggCall.out[j].count = aggCall.out[k].count
                      /\ FirstAppearance(aggCall.out[j].ip)
                             < FirstAppearance(aggCall.out[k].ip)

\* three addresses with one record each, the first two returned in batch order
C16_Witness ==
    /\ aggCall.op = "aggregate_by_source_ip"
    /\ aggCall.top_n = 2
    /\ Len(aggBatch) >= 3
    /\ Len(aggCall.out) = 2
    /\ aggCall.out[1].ip = "b" /\ aggCall.out[2].ip = "a"
    /\ aggCall.out[1].count = aggCall.out[2].count

\* the records of the batch whose field, uppercased, is the key
RecordsUnder(field, default, key) ==
    {i \in DOMAIN aggBatch : Upper(Get(aggBatch[i], field, default)) = key}

\* every key of the result is uppercase and counts the records whose field
\* is that key in any letter case
CountsIgnoreCase(field, default) ==
    \A k \in DOMAIN aggCall.out :
        /\ Upper(aggCall.out[k].key) = aggCall.out[k].key
        /\ aggCall.out[k].count =
               Cardinality(RecordsUnder(field, default, aggCall.out[k].key))

\* C25: the keys of aggregate_by_protocol and of aggregate_by_state are
\* uppercased: records whose protocol (or state) values differ only in letter
\* case are counted under one uppercased key.
C25_KeysUppercased ==
    /\ aggCall.op = "aggregate_by_protocol" => CountsIgnoreCase("protocol", "unknown")
    /\ aggCall.op = "aggregate_by_state" => CountsIgnoreCase("state", "UNKNOWN")

(***************************************************************************)
(* Time-series claims                                                      *)
(***************************************************************************)
\* the saved ConnectionSnapshot rows whose record has the key in the dimension
SavedRowsFor(metric_type, metric_key) ==
    Cardinality({i \in 1..Len(connTable) :
                    GroupKey(connTable[i].conn, metric_type) = metric_key})

\* one save on an empty store, nothing pruned, then a query for a type and
\* key that the save stored, over a range that covers the save's timestamp
RoundTrip ==
    /\ dbCall.op = "get_time_series"
    /\ callSeq = 1
    /\ ~dbCall.pruned
    /\ dbCall.metric_key # ""
    /\ \E i \in 1..Len(metricTable) :
          /\ metricTable[i].metric_type = dbCall.metric_type
          /\ metricTable[i].metric_key = dbCall.metric_key
    /\ \A i \in 1..Len(metricTable) :
          /\ dbCall.start_time.some => dbCall.start_time.v <= metricTable[i].ts
          /\ dbCall.end_time.some => metricTable[i].ts <= dbCall.end_time.v

\* C17: on an empty store, one save_snapshot followed by get_time_series for
\* a metric type and key of that save, over a range covering its timestamp,
\* returns a single bucket, and the bucket's count is the number of saved
\* connection rows that have that key.
C17_RoundTrip ==
    RoundTrip =>
        /\ Len(dbCall.out) = 1
        /\ dbCall.out[1].count = SavedRowsFor(dbCall.metric_type, dbCall.metric_key)

C17_Witness ==
    /\ RoundTrip
    /\ Len(connTable) = 3
    /\ Len(dbCall.out) = 1
    /\ dbCall.out[1].count = 2

\* a cleanup that directly follows a cleanup with the same days_to_keep
RepeatedCleanup == dbCall.op = "cleanup_old_data" /\ dbCall.repeat

\* C18 as stated: the second of two cleanups in a row, with the same
\* argument and no write between them, leaves both row counts as they were.
C18_PruneIdempotent ==
    RepeatedCleanup =>
        /\ dbCall.conn_after = dbCall.conn_before
        /\ dbCall.metric_after = dbCall.metric_before

\* C18 amended: the second cleanup leaves both row counts as they were when
\* it computes the same cutoff as the first (the clock reads the same); in
\* every case it removes rows only, and leaves no row older than its cutoff.
C18_PruneIdempotentAtSameClock ==
    RepeatedCleanup =>
        /\ dbCall.cutoff = dbCall.prev_cutoff =>
              /\ dbCall.conn_after = dbCall.conn_before
              /\ dbCall.metric_after = dbCall.metric_before
        /\ dbCall.conn_after <= dbCall.conn_before
        /\ dbCall.metric_after <= dbCall.metric_before
        /\ \A i \in 1..Len(connTable) : connTable[i].ts >= dbCall.cutoff
        /\ \A i \in 1..Len(metricTable) : metricTable[i].ts >= dbCall.cutoff

\* the first cleanup removed rows, the second at the same clock reading none,
\* and rows remain
C18_Witness ==
    /\ RepeatedCleanup
    /\ dbCall.cutoff = dbCall.prev_cutoff
    /\ dbCall.prev_removed > 1
    /\ dbCall.conn_after = dbCall.conn_before
    /\ dbCall.conn_after > 0
    /\ dbCall.metric_after > 0

\* a call of get_all_metrics_at_time with no argument
LatestQuery == dbCall.op = "get_all_metrics_at_time" /\ ~dbCall.timestamp.some

\* each cycle's rows carry a timestamp of their own (the clock of
\* save_snapshot has microseconds; the model's has minutes)
DistinctCycleTimestamps ==
    \A i, j \in DOMAIN metricTable :
        metricTable[i].ts = metricTable[j].ts => metricTable[i].by = metricTable[j].by

\* the rows with the greatest timestamp in the table
LatestRows ==
    {i \in DOMAIN metricTable :
        \A j \in DOMAIN metricTable : metricTable[j].ts <= metricTable[i].ts}

\* what the mapping holds, as (type, key, values) entries
EntriesOf(out) ==
    UNION {{[metric_type |-> out[t].metric_type, value |-> out[t].keys[k]] :
               k \in DOMAIN out[t].keys} : t \in DOMAIN out}

RowEntry(row) ==
    [metric_type |-> row.metric_type,
     value |-> [metric_key |-> row.metric_key, count |-> row.count,
                bytes_sent |-> row.bytes_sent, bytes_recv |-> row.bytes_recv,
                total_bytes |-> row.total_bytes]]

\* C22: after any sequence of save_snapshot and cleanup_old_data calls (each
\* cycle with a timestamp of its own), get_all_metrics_at_time() returns
\* exactly the MetricSnapshot rows with the greatest timestamp in the table,
\* each type once and each key once within its type, the empty mapping when
\* the table has no rows, and never rows of two cycles.
C22_LatestMetrics ==
    (LatestQuery /\ DistinctCycleTimestamps) =>
        /\ metricTable = << >> => dbCall.out = << >>
        /\ EntriesOf(dbCall.out) = {RowEntry(metricTable[i]) : i \in LatestRows}
        /\ Cardinality(EntriesOf(dbCall.out)) = Cardinality(LatestRows)
        /\ \A t, u \in DOMAIN dbCall.out :
               dbCall.out[t].metric_type = dbCall.out[u].metric_type => t = u
        /\ \A i, j \in LatestRows : metricTable[i].by = metricTable[j].by

\* two cycles' rows are in the table, a cleanup has run, and the latest
\* metrics are those of the second cycle only
C22_Witness ==
    /\ LatestQuery
    /\ DistinctCycleTimestamps
    /\ dbCall.pruned
    /\ \E i, j \in DOMAIN metricTable : metricTable[i].by # metricTable[j].by
    /\ dbCall.out # << >>
    /\ \A i \in LatestRows : metricTable[i].by = 2
    /\ Cardinality(LatestRows) < Len(metricTable)

\* the timestamp with its minute of the hour cut down to the nearest
\* multiple of the interval: the latest such instant of the same hour that
\* is not after the timestamp
Truncated(ts, interval_minutes) ==
    CHOOSE t \in (ts - (ts % 60))..ts :
        /\ t \div 60 = ts \div 60
        /\ (t % 60) % interval_minutes = 0
        /\ \A u \in (t + 1)..ts : (u % 60) % interval_minutes # 0

\* the rows of the table the last get_time_series call asked for
MatchingRows ==
    {i \in DOMAIN metricTable :
        /\ metricTable[i].metric_type = dbCall.metric_type
        /\ dbCall.metric_key # "" => metricTable[i].metric_key = dbCall.metric_key
        /\ dbCall.start_time.some => metricTable[i].ts >= dbCall.start_time.v
        /\ dbCall.end_time.some => metricTable[i].ts <= dbCall.end_time.v}

\* the matching rows that belong to the bucket at t
RowsOfBucket(t) ==
    {i \in MatchingRows : Truncated(metricTable[i].ts, dbCall.interval_minutes) = t}

RECURSIVE SumOfRows(_, _)
SumOfRows(rows, field) ==
    IF rows = {} THEN 0
    ELSE LET i == CHOOSE r \in rows : TRUE
         IN  metricTable[i][field] + SumOfRows(rows \ {i}, field)

CleanCall ==
    /\ scoreCall.via # "none"
    /\ Len(scoreCall.connections) >= MinRecords
    /\ ~ExtractRaises(scoreCall.connections)
    /\ scoreCall.fault = "none"

\* the scores the detector's scaler and model give the last call's records
ScoresOfInput ==
    score_samples(ScalerTransform(anomaly_detector.scaler,
                                  extract_features(scoreCall.connections)))

\* C5: a scoring call with fewer than 10 records (detect_anomalies itself, or
\* the request handler in front of it) returns ([], []), raises nothing, and
\* leaves the model, the scaler and the fitted flag exactly as they were.
C5_TooFewRefused ==
    [][ (scoreCall'.seq # scoreCall.seq
            /\ Len(scoreCall'.connections) < MinRecords) =>
            /\ scoreCall'.indices = << >>
            /\ scoreCall'.scores = << >>
            /\ scoreCall'.error = "none"
            /\ ~scoreCall'.raised
            /\ anomaly_detector'.model = anomaly_detector.model
            /\ anomaly_detector'.scaler = anomaly_detector.scaler
            /\ anomaly_detector'.is_fitted = anomaly_detector.is_fitted
      ]_vars

\* a fitted detector was handed nine records and answered with the empty result
C5_Witness ==
    /\ scoreCall.via = "detect_anomalies"
    /\ Len(scoreCall.connections) = MinRecords - 1
    /\ scoreCall.indices = << >> /\ scoreCall.scores = << >>
    /\ anomaly_detector.is_fitted
    /\ anomaly_detector.model.fitted
    /\ anomaly_detector.scaler.fitted

\* C6: a scoring call with 10 or more records returns one score per record,
\* in the records' order, and the indices of exactly the records the model
\* flags, each once and in range, sorted ascending by score; for every
\* contamination in [0, 0.5] and every positive estimator count.
C6_ScoresAndRanking ==
    CleanCall =>
        LET n == Len(scoreCall.connections)
            indices == scoreCall.indices
            scores == scoreCall.scores
        IN  /\ Len(scores) = n
            /\ scores = ScoresOfInput
            /\ \A k \in DOMAIN indices : indices[k] \in 1..n
            /\ \A j, k \in DOMAIN indices : j # k => indices[j] # indices[k]
            /\ Range(indices) =
                   {i \in 1..n : scores[i] - anomaly_detector.model.offset < 0}
            /\ \A j, k \in DOMAIN indices :
                   j < k => scores[indices[j]] <= scores[indices[k]]

\* C7: when a request changes contamination or the estimator count, its
\* scoring call fits a new scaler and model with the new parameters before it
\* predicts: the call refits, the fitted flag is true again afterwards, and
\* the model that predicted carries the detector's current parameters.
C7_ChangeForcesRefit ==
    (CleanCall /\ scoreCall.changed) =>
        /\ scoreCall.refit
        /\ scoreCall.predicted
        /\ anomaly_detector.is_fitted
        /\ anomaly_detector.model.fitted
        /\ anomaly_detector.scaler.fitted
        /\ anomaly_detector.model.contamination = anomaly_detector.contamination
        /\ anomaly_detector.model.n_estimators = anomaly_detector.n_estimators

\* C8: an internal error of a scoring call is caught and gives ([], []), it
\* never leaves the call; no call predicts with an unfitted scaler or model;
\* and once a call has failed, a later call with enough well-formed records
\* and no override of its own returns scores for its records.
C8_ErrorsContained ==
    /\ scoreCall.error # "none" =>
           /\ scoreCall.indices = << >>
           /\ scoreCall.scores = << >>
           /\ ~scoreCall.raised
    /\ scoreCall.error # "NotFittedError"
    /\ (/\ CleanCall
        /\ scoreCall.afterFailure
        /\ ~scoreCall.contamination.some
        /\ ~scoreCall.n_estimators.some) =>
           /\ scoreCall.error = "none"
           /\ Len(scoreCall.scores) = Len(scoreCall.connections)

\* the last request supplied a contamination outside [0, 0.5], had enough
\* well-formed records, no library call of it ran out of memory, and no
\* earlier call had failed
InvalidContaminationRequest ==
    /\ CleanCall
    /\ ~scoreCall.afterFailure
    /\ scoreCall.via = "get_anomalies"
    /\ scoreCall.contamination.some
    /\ ~(0 <= scoreCall.contamination.v
            /\ scoreCall.contamination.v <= MaxContamination)

\* C21: a request that supplies a contamination outside [0, 0.5] is handled
\* without error, and its detection runs with the default contamination 0.1
\* (the detector's contamination and that of the model that predicted),
\* whatever overrides earlier requests supplied.
C21_InvalidContaminationUsesDefault ==
    InvalidContaminationRequest =>
        /\ scoreCall.error = "none"
        /\ ~scoreCall.raised
        /\ anomaly_detector.contamination = DefaultContamination
        /\ anomaly_detector.model.made
        /\ anomaly_detector.model.contamination = DefaultContamination

\* the detector's model was made and fitted with the detector's parameters
ModelMatchesParameters ==
    /\ anomaly_detector.model.made
    /\ anomaly_detector.model.fitted
    /\ anomaly_detector.model.contamination = anomaly_detector.contamination
    /\ anomaly_detector.model.n_estimators = anomaly_detector.n_estimators

\* C29: after any sequence of scoring requests (with or without valid or
\* invalid contamination / n_estimators overrides, with fits that succeed or
\* fail), whenever the detector's fitted flag is set its model exists and was
\* fitted with the detector's current contamination and n_estimators, and a
\* call that predicted did so with such a model.
C29_FittedMatchesParameters ==
    /\ anomaly_detector.is_fitted => ModelMatchesParameters
    /\ scoreCall.predicted => (anomaly_detector.is_fitted /\ ModelMatchesParameters)

\* the second request overrode both parameters of a fitted detector, refitted
\* and predicted with the new values
C29_Witness ==
    /\ scoreCall.seq = 2
    /\ scoreCall.afterFailure = FALSE
    /\ scoreCall.changed
    /\ scoreCall.refit
    /\ scoreCall.predicted
    /\ anomaly_detector.is_fitted
    /\ anomaly_detector.model.contamination = 20
    /\ anomaly_detector.model.n_estimators = 50
    /\ anomaly_detector.contamination # DefaultContamination
    /\ anomaly_detector.n_estimators # DefaultEstimators

\* a detector with the parameters of anomaly_detector and no call behind it
FreshDetector ==
    [contamination |-> anomaly_detector.contamination,
     n_estimators |-> anomaly_detector.n_estimators,
     model |-> NoModel, scaler |-> NewScaler, is_fitted |-> FALSE]

\* a call that scored its batch with no failure in it or before it and no
\* change of the parameters
UndisturbedScore ==
    /\ scoreCall.seq > 0
    /\ scoreCall.predicted
    /\ scoreCall.error = "none"
    /\ ~scoreCall.changed
    /\ ~scoreCall.afterFailure

\* C30: with contamination and n_estimators unchanged, what scoring a batch
\* of 10 or more records returns depends on the batch and the parameters
\* only, not on the batches the detector scored before: the call returns the
\* indices and scores a detector with the same parameters and no earlier
\* call returns for the batch.
C30_HistoryIndependent ==
    UndisturbedScore =>
        \A r \in {detect_anomalies(FreshDetector, scoreCall.connections, "none")} :
            /\ scoreCall.indices = r.indices
            /\ scoreCall.scores = r.scores

(***************************************************************************)
(* Claims about the normalised feature columns.                            *)
(***************************************************************************)
\* the batch maximum of one quantity
BatchMax(field) == MaxOf({featBatch[i][field] : i \in DOMAIN featBatch})
\* the largest destination port of the batch
MaxDestPort == MaxOf({PortInt(featBatch[i].dport) : i \in DOMAIN featBatch})

\* each byte column is the record's value over the batch maximum of that column
ByteNormsByOwnMax ==
    \A i \in DOMAIN featBatch :
        /\ featOut.features[i].bytes_sent_norm =
               Norm(featBatch[i].bytes_sent, BatchMax("bytes_sent"))
        /\ featOut.features[i].bytes_recv_norm =
               Norm(featBatch[i].bytes_recv, BatchMax("bytes_recv"))
        /\ featOut.features[i].total_bytes_norm =
               Norm(featBatch[i].total_bytes, BatchMax("total_bytes"))

\* C28: in the feature vector each of the three byte columns and the
\* destination-port column equals the record's value divided by the batch
\* maximum of that same quantity (0 when that maximum is 0); the port column
\* is the record's numeric destination port over the largest destination port
\* of the batch, so a batch with a non-zero destination port has a record
\* whose port column is 1.
C28_NormalisedByOwnMaximum ==
    (featOut.done /\ featBatch # << >>) =>
        /\ Len(featOut.features) = Len(featBatch)
        /\ ByteNormsByOwnMax
        /\ \A i \in DOMAIN featBatch :
               featOut.features[i].port_norm =
                   Norm(PortInt(featBatch[i].dport), MaxDestPort)
        /\ (MaxDestPort > 0 =>
               \E i \in DOMAIN featBatch : featOut.features[i].port_norm = 100)

====
